---- MODULE Spec2Model ----
(***************************************************************************)
(* A model of the symbolic core of KnowRob: terms, the unifier, reversible *)
(* substitution merges, the query parser, the reasoner manager and the     *)
(* query life cycle of a reasoner.                                         *)
(*                                                                         *)
(* The module holds several specifications over one set of variables; a    *)
(* specification leaves the variables of the other parts untouched.        *)
(*   SpecUnifier  Unifier(t0,t1) applied to pairs of terms                 *)
(*   SpecMerge    Substitution::unifyWith / Reversible::rollBack           *)
(*   SpecQuery    startQuery / pushSubstitution / runners / finishQuery    *)
(*   SpecQueryFair   the same, with workers that are scheduled fairly      *)
(*   SpecParser   the entry points of the query parser                     *)
(*   SpecMgr      ReasonerManager                                          *)
(*   SpecData     IReasoner::addDataFileHandler / loadDataFile             *)
(*   SpecIndicator   PredicateIndicator::operator<                         *)
(*   SpecConfig   ReasonerConfiguration::loadPropertyTree                   *)
(*   SpecSubstitution   Substitution::set / get / contains                  *)
(*   SpecCursor   MongoCursor::ascending / descending                       *)
(***************************************************************************)
EXTENDS Integers, Sequences, FiniteSets, TLC

VARIABLES
    ut0, ut1, uout,                        \* Unifier: its two terms and its outcome
    sigma, journal, base, merges, plain, mlast,   \* Substitution, Reversible, merge history
    qstate, runners, chan, nextRunner,     \* reasoner: ActiveQuery, its runners, the channel
    input, entry, result, shape,           \* parser: query string, entry point, outcome, what the string was built from
    pool, plugins, reasonerIndex, created, mlog,  \* ReasonerManager
    dataFileHandler, registered, dlog,     \* IReasoner: data file handlers, their registrations, the last load
    indicators, less,                      \* PredicateIndicator: three indicators and how they compare
    ptree, settings,                       \* ReasonerConfiguration: the property tree loaded, the settings
    cursorOpts, sortDocs, clog             \* MongoCursor: options of the cursors, the static sort documents, the last call

unifierVars == <<ut0, ut1, uout>>
mergeVars   == <<sigma, journal, base, merges, plain, mlast>>
queryVars   == <<qstate, runners, chan, nextRunner>>
parserVars  == <<input, entry, result, shape>>
mgrVars     == <<pool, plugins, reasonerIndex, created, mlog>>
dataVars    == <<dataFileHandler, registered, dlog>>
indicatorVars == <<indicators, less>>
configVars  == <<ptree, settings>>
cursorVars  == <<cursorOpts, sortDocs, clog>>
vars == <<ut0, ut1, uout, sigma, journal, base, merges, plain, mlast,
          qstate, runners, chan, nextRunner, input, entry, result, shape,
          pool, plugins, reasonerIndex, created, mlog,
          dataFileHandler, registered, dlog, indicators, less,
          ptree, settings, cursorOpts, sortDocs, clog>>

(***************************************************************************)
(* Terms (TermType of terms.cpp).  A term is a record tagged by its type;  *)
(* the payload field is named after the type so that terms of different    *)
(* types are different records.                                            *)
(***************************************************************************)
Variable(n)        == [type |-> "VARIABLE", name |-> n]
StringTerm(s)      == [type |-> "STRING", str |-> s]
DoubleTerm(v)      == [type |-> "DOUBLE", num |-> v]
LongTerm(v)        == [type |-> "LONG", lng |-> v]
Integer32Term(v)   == [type |-> "INT32", i32 |-> v]
TopTerm            == [type |-> "TOP"]
BottomTerm         == [type |-> "BOTTOM"]
\* Predicate(functor, arguments): the indicator is functor/arguments.size()
Predicate(f, as)   == [type |-> "PREDICATE", functor |-> f, args |-> as]
ListTerm(items)    == [type |-> "LIST", items |-> items]

arity(p) == Len(p.args)

RECURSIVE isGround(_)
isGround1(as) == \A i \in 1..Len(as) : isGround(as[i])
isGround(t) ==
    CASE t.type = "VARIABLE"  -> FALSE
      [] t.type = "PREDICATE" -> isGround1(t.args)
      [] t.type = "LIST"      -> isGround1(t.items)
      [] OTHER                -> TRUE

(***************************************************************************)
(* Substitution: std::map<Variable,TermPtr>, a function from a set of      *)
(* variable names to terms.  The map is ordered by variable name; VarOrder *)
(* is that order for the names the model uses.                             *)
(***************************************************************************)
VarOrder == <<"X", "Y", "Z">>
VarIndex(n) == CHOOSE i \in 1..Len(VarOrder) : VarOrder[i] = n

EmptyMapping == [v \in {} |-> TopTerm]

Substitution_contains(m, n) == n \in DOMAIN m

\* Substitution::get: the bound term, or the null term
NullTerm == [type |-> "NULL"]
Substitution_get(m, n) == IF n \in DOMAIN m THEN m[n] ELSE NullTerm

\* Substitution::set of terms/Substitution.cpp: std::map::insert, which leaves
\* an existing binding of the variable in place
Substitution_set(m, n, t) ==
    IF n \in DOMAIN m THEN m
    ELSE [v \in DOMAIN m \cup {n} |-> IF v = n THEN t ELSE m[v]]

\* Substitution::set of lang/terms.cpp: mapping_[var] = term
Substitution_assign(m, n, t) ==
    [v \in DOMAIN m \cup {n} |-> IF v = n THEN t ELSE m[v]]

Substitution_erase(m, n) == [v \in DOMAIN m \ {n} |-> m[v]]

(***************************************************************************)
(* Predicate::applySubstitution.                                           *)
(***************************************************************************)
RECURSIVE applySubstitutionArg(_, _)
\* the body of the loop, for one argument `t`
applySubstitutionArg(t, sub) ==
    CASE t.type = "VARIABLE" ->
            IF Substitution_get(sub, t.name) = NullTerm THEN t
            ELSE Substitution_get(sub, t.name)
      [] t.type = "PREDICATE" ->
            IF isGround(t) THEN t
            ELSE Predicate(t.functor,
                           [i \in 1..Len(t.args) |-> applySubstitutionArg(t.args[i], sub)])
      [] OTHER -> t

Predicate_applySubstitution(p, sub) ==
    Predicate(p.functor, [i \in 1..Len(p.args) |-> applySubstitutionArg(p.args[i], sub)])

(***************************************************************************)
(* Unifier::unify.  The result is the SET of outcomes the call can have:   *)
(* res is "true" or "false" (the return value) or "crash", and map is      *)
(* mapping_ as the call leaves it.  The loop over the arguments runs to    *)
(* p0's arity and reads p1->arguments()[i] also when p1 has fewer          *)
(* arguments; that read is undefined behaviour, and is modelled as any of: *)
(* the process crashes, the garbage does not unify, the garbage unifies    *)
(* without a binding.                                                      *)
(***************************************************************************)
Outcome(r, m) == [res |-> r, map |-> m]

ConstantEq(t0, t1) ==
    CASE t0.type = "STRING" -> t1.type = "STRING" /\ t0.str = t1.str
      [] t0.type = "DOUBLE" -> t1.type = "DOUBLE" /\ t0.num = t1.num
      [] t0.type = "INT32"  -> t1.type = "INT32"  /\ t0.i32 = t1.i32
      [] t0.type = "LONG"   -> t1.type = "LONG"   /\ t0.lng = t1.lng
      [] t0.type = "TOP"    -> t1.type = "TOP"
      [] t0.type = "BOTTOM" -> t1.type = "BOTTOM"
      [] OTHER              -> FALSE

\* the functor and arity test of the PREDICATE case, as written: p0 against p0
IndicatorMismatch(p0, p1) ==
    p0.functor # p0.functor \/ arity(p0) # arity(p0)

RECURSIVE unify(_, _, _)
RECURSIVE unifyArguments(_, _, _, _)
\* for(i=0; i<p0->indicator().arity(); ++i) if(!unify(p0[i], p1[i])) return false;
unifyArguments(p0, p1, i, m) ==
    IF i > arity(p0) THEN {Outcome("true", m)}
    ELSE IF i > arity(p1)
         THEN {Outcome("crash", m), Outcome("false", m)} \cup unifyArguments(p0, p1, i + 1, m)
         ELSE UNION { IF o.res = "true" THEN unifyArguments(p0, p1, i + 1, o.map) ELSE {o}
                      : o \in unify(p0.args[i], p1.args[i], m) }

unify(t0, t1, m) ==
    IF t1.type = "VARIABLE" THEN {Outcome("true", Substitution_assign(m, t1.name, t0))}
    ELSE CASE t0.type = "VARIABLE" -> {Outcome("true", Substitution_assign(m, t0.name, t1))}
           [] t0.type = "PREDICATE" ->
                IF t1.type # "PREDICATE" THEN {Outcome("false", m)}
                ELSE IF IndicatorMismatch(t0, t1) THEN {Outcome("false", m)}
                ELSE unifyArguments(t0, t1, 1, m)
           [] t0.type \in {"STRING", "DOUBLE", "INT32", "LONG", "TOP", "BOTTOM"} ->
                {Outcome(IF ConstantEq(t0, t1) THEN "true" ELSE "false", m)}
           [] OTHER -> {Outcome("false", m)}

\* Unifier::Unifier: exists_(unify(t0,t1)) on an empty substitution
Unifier(t0, t1) == unify(t0, t1, EmptyMapping)

\* Unifier::apply for a unifier whose outcome is o
Unifier_apply(t0, t1, o) ==
    IF o.res # "true" THEN BottomTerm
    ELSE IF DOMAIN o.map = {} \/ isGround(t0) \/ t1.type = "VARIABLE" THEN t0
    ELSE IF isGround(t1) \/ t0.type = "VARIABLE" THEN t1
    ELSE IF t0.type = "PREDICATE" THEN Predicate_applySubstitution(t0, o.map)
    ELSE BottomTerm

(***************************************************************************)
(* Values the variables of a part hold while another part is being run.    *)
(***************************************************************************)
NoOutcome == Outcome("none", EmptyMapping)
NoMerge   == [op |-> "none", ret |-> "none", n |-> 0, plain |-> 0, prev |-> "none", undone |-> 0]
NoResult  == [st |-> "none"]

UnifierIdle == ut0 = TopTerm /\ ut1 = TopTerm /\ uout = NoOutcome
MergeIdle   == /\ sigma = EmptyMapping /\ journal = <<>> /\ base = EmptyMapping
               /\ merges = 0 /\ plain = 0 /\ mlast = NoMerge
NoQuery     == [started |-> FALSE, active |-> FALSE, inputComplete |-> FALSE,
                finishCalled |-> FALSE, immediate |-> FALSE]
QueryIdle   == qstate = NoQuery /\ runners = EmptyMapping /\ chan = <<>> /\ nextRunner = 0
NoShape == [kind |-> "none"]
ParserIdle  == input = <<>> /\ entry = "none" /\ result = NoResult /\ shape = NoShape
NoCall      == [op |-> "none"]
MgrIdle     == /\ pool = <<>> /\ plugins = EmptyMapping /\ reasonerIndex = 0
               /\ created = 0 /\ mlog = NoCall
DataIdle    == dataFileHandler = EmptyMapping /\ registered = <<>> /\ dlog = NoCall
IndicatorIdle == indicators = <<>> /\ less = NoCall
ConfigIdle  == ptree = <<>> /\ settings = <<>>
CursorIdle  == cursorOpts = <<>> /\ sortDocs = <<>> /\ clog = NoCall

(***************************************************************************)
(* SpecUnifier: a Unifier is constructed for every pair of terms of a      *)
(* bounded universe: variables, constants of several types, Top, compounds *)
(* of arity 1 and 2 over them (so a variable can occur twice), and a few   *)
(* nested compounds.                                                       *)
(***************************************************************************)
NumVars == 2
UVariables == {Variable(VarOrder[i]) : i \in 1..NumVars}
ULeaves == UVariables \cup {StringTerm("a"), StringTerm("b"), Integer32Term(1),
                            LongTerm(1), TopTerm}
UFunctors == {"f", "g"}
UCompounds ==
    {Predicate(f, <<x>>) : f \in UFunctors, x \in ULeaves}
    \cup {Predicate(f, <<x, y>>) : f \in UFunctors, x \in ULeaves, y \in ULeaves}
UNested ==
    {Predicate("f", <<Predicate("g", <<x>>)>>) : x \in {Variable("X"), StringTerm("a")}}
    \cup {Predicate("f", <<Variable("X"), Predicate("g", <<Variable("X")>>)>>)}
UTerms == ULeaves \cup UCompounds \cup UNested

UnifierInit ==
    /\ ut0 \in UTerms /\ ut1 \in UTerms /\ uout = NoOutcome
    /\ MergeIdle /\ QueryIdle /\ ParserIdle /\ MgrIdle /\ DataIdle /\ IndicatorIdle /\ ConfigIdle /\ CursorIdle

\* Unifier sigma(t0, t1)
ConstructUnifier ==
    /\ uout.res = "none"
    /\ uout' \in Unifier(ut0, ut1)
    /\ UNCHANGED <<ut0, ut1, mergeVars, queryVars, parserVars, mgrVars, dataVars, indicatorVars, configVars, cursorVars>>

UnifierNext == ConstructUnifier
SpecUnifier == UnifierInit /\ [][UnifierNext]_vars

\* apply(t, sigma) of a term: a variable is replaced by its binding, a compound
\* is rebuilt, anything else is returned as it is
ApplyTerm(t, sub) == applySubstitutionArg(t, sub)

\* C1: whenever a unifier exists, the two terms are structurally equal under it.
C1_UnifierSound ==
    uout.res = "true" => ApplyTerm(ut0, uout.map) = ApplyTerm(ut1, uout.map)

\* t1 is a compound with the functor and the arity of the compound t0
SameIndicator(t0, t1) ==
    t1.type = "PREDICATE" /\ t1.functor = t0.functor /\ arity(t1) = arity(t0)

\* C19: the unifier of a compound t0 and a term t1 that is neither a variable
\* nor a compound with the functor and the arity of t0 does not exist: the
\* constructor returns, and exists() is false.
C19_CompoundMismatchFails ==
    (uout.res # "none" /\ ut0.type = "PREDICATE" /\ ut1.type # "VARIABLE"
        /\ ~SameIndicator(ut0, ut1)) => uout.res = "false"

\* C25: when the unifier of t0 and t1 exists, apply() returns a term that is
\* structurally equal to t0 and to t1 with the substitution of the unifier
\* applied; when it does not exist, apply() returns Bottom.
C25_ApplyIsUnifiedTerm ==
    /\ uout.res = "true" =>
          /\ Unifier_apply(ut0, ut1, uout) = ApplyTerm(ut0, uout.map)
          /\ Unifier_apply(ut0, ut1, uout) = ApplyTerm(ut1, uout.map)
    /\ uout.res = "false" => Unifier_apply(ut0, ut1, uout) = BottomTerm

\* C26: the unifier of a variable t1 and a term t0 that is not a variable
\* binds t1 to t0 and nothing else; the unifier of a variable t0 and any
\* term t1, a variable or not, binds t0 to t1 and nothing else.
C26_BindingDirection ==
    uout.res # "none" =>
        /\ (ut1.type = "VARIABLE" /\ ut0.type # "VARIABLE") =>
              (uout.res = "true" /\ uout.map = Substitution_assign(EmptyMapping, ut1.name, ut0))
        /\ ut0.type = "VARIABLE" =>
              (uout.res = "true" /\ uout.map = Substitution_assign(EmptyMapping, ut0.name, ut1))

(***************************************************************************)
(* Substitution::unifyWith and Reversible::rollBack.                       *)
(*                                                                         *)
(* Reversible is a queue of undo closures (push, front, pop).  A closure   *)
(* captures a map iterator: "erase" erases the node of `var`, "restore"    *)
(* writes `term` into the node of `var`.                                   *)
(***************************************************************************)
EraseUndo(n)      == [undo |-> "erase", var |-> n]
RestoreUndo(n, t) == [undo |-> "restore", var |-> n, term |-> t]

\* (mutant: the loop stops after the first variable of the order)
SortedKeys_OnlyFirst(m) == SelectSeq(<<VarOrder[1]>>, LAMBDA n : n \in DOMAIN m)
\* the keys of a mapping in the iteration order of std::map
SortedKeys(m) == SelectSeq(VarOrder, LAMBDA n : n \in DOMAIN m)

MergeOutcome(r, m, j) == [ret |-> r, map |-> m, journal |-> j]

\* (mutant: nothing is pushed for a newly inserted binding)
InsertedUndo_Skipped(j, n) == j
\* the undo pushed for a newly inserted binding
InsertedUndo(j, n) == Append(j, EraseUndo(n))
\* (mutant: the closure restores the unified term instead of the replaced one)
ReplacedUndo_Unified(j, n, t0, tnew) == Append(j, RestoreUndo(n, tnew))
\* the undo pushed for an overwritten binding, t0 being the term it replaced
ReplacedUndo(j, n, t0, tnew) == Append(j, RestoreUndo(n, t0))

RECURSIVE unifyWithFrom(_, _, _, _, _, _)
\* the loop of unifyWith from the i-th binding of `other` on; `rev` tells
\* whether a Reversible was passed
unifyWithFrom(m, j, other, keys, i, rev) ==
    IF i > Len(keys) THEN {MergeOutcome("true", m, j)}
    ELSE LET k == keys[i] IN
         IF k \notin DOMAIN m
         THEN unifyWithFrom(Substitution_set(m, k, other[k]),
                            IF rev THEN InsertedUndo(j, k) ELSE j,
                            other, keys, i + 1, rev)
         ELSE LET t0 == m[k]
                  t1 == other[k]
              IN UNION {
                   CASE o.res = "true" ->
                          unifyWithFrom([m EXCEPT ![k] = Unifier_apply(t0, t1, o)],
                                        IF rev THEN ReplacedUndo(j, k, t0, Unifier_apply(t0, t1, o))
                                               ELSE j,
                                        other, keys, i + 1, rev)
                     [] o.res = "false" -> {MergeOutcome("false", m, j)}
                     [] OTHER -> {MergeOutcome("crash", m, j)}
                   : o \in Unifier(t0, t1) }

unifyWith(m, j, other, rev) == unifyWithFrom(m, j, other, SortedKeys(other), 1, rev)

\* the undo closure rollBack runs next: front()
Reversible_front(j) == Head(j)

RECURSIVE rollBackFrom(_, _, _)
\* Reversible::rollBack: while(!empty()) { front()(); pop(); }.  `gone` holds
\* the variables whose node an earlier closure of this run erased: writing
\* through the iterator of such a node is undefined behaviour, modelled as
\* either a crash or a write that is lost.
rollBackFrom(m, j, gone) ==
    IF j = <<>> THEN {[ret |-> "done", map |-> m]}
    ELSE LET u == Reversible_front(j) IN
         IF u.undo = "erase"
         THEN rollBackFrom(Substitution_erase(m, u.var), Tail(j), gone \cup {u.var})
         ELSE IF u.var \in gone
              THEN {[ret |-> "crash", map |-> m]} \cup rollBackFrom(m, Tail(j), gone)
              ELSE rollBackFrom([m EXCEPT ![u.var] = u.term], Tail(j), gone)

rollBack(m, j) == rollBackFrom(m, j, {})

(***************************************************************************)
(* SpecMerge: a substitution, one journal, and any sequence of up to       *)
(* MaxMerges merges (with or without the journal) and roll backs.          *)
(*   base    the substitution as it was before the first merge that the    *)
(*           journal records                                               *)
(*   merges  the merges recorded in the journal since then                 *)
(*   plain   the merges made without a journal since then                  *)
(*   mlast   the last operation: op, its result ret, the result prev of    *)
(*           the operation before it, and for a roll back the numbers of   *)
(*           merges (n, plain) it followed and of closures it ran (undone);*)
(*           for a merge that is the first operation, <<its argument>>     *)
(*           (base is then the substitution it was called on)              *)
(***************************************************************************)
MaxMerges == 2
MergeVarNames == {"X", "Y"}
MergeTerms == {StringTerm("a"), StringTerm("b"),
               Predicate("f", <<Variable("X")>>), Predicate("f", <<StringTerm("a")>>),
               Predicate("f", <<StringTerm("a"), StringTerm("b")>>)}
Substitutions ==
    UNION { [D -> MergeTerms] : D \in SUBSET MergeVarNames }

MergeInit ==
    /\ sigma \in Substitutions /\ journal = <<>> /\ base = sigma
    /\ merges = 0 /\ plain = 0 /\ mlast = NoMerge
    /\ UnifierIdle /\ QueryIdle /\ ParserIdle /\ MgrIdle /\ DataIdle /\ IndicatorIdle /\ ConfigIdle /\ CursorIdle

\* sigma.unifyWith(other, &journal) or sigma.unifyWith(other, nullptr)
UnifyWith(other, rev) ==
    /\ mlast.ret # "crash"
    /\ merges + plain < MaxMerges
    /\ \E o \in unifyWith(sigma, journal, other, rev) :
          /\ sigma' = o.map
          /\ journal' = o.journal
          /\ mlast' = [op |-> "unifyWith", ret |-> o.ret, n |-> 0, plain |-> 0,
                        prev |-> mlast.ret, undone |-> 0,
                        other |-> IF mlast.op = "none" THEN <<other>> ELSE <<>>]
    /\ base' = IF rev /\ merges = 0 THEN sigma ELSE base
    /\ merges' = IF rev THEN merges + 1 ELSE merges
    /\ plain' = IF ~rev /\ merges > 0 THEN plain + 1 ELSE plain
    /\ UNCHANGED <<unifierVars, queryVars, parserVars, mgrVars, dataVars, indicatorVars, configVars, cursorVars>>

\* journal.rollBack()
RollBack ==
    /\ mlast.ret # "crash"
    /\ \E o \in rollBack(sigma, journal) :
          /\ sigma' = o.map
          /\ mlast' = [op |-> "rollBack", ret |-> o.ret, n |-> merges, plain |-> plain,
                        prev |-> mlast.ret, undone |-> Len(journal)]
    /\ journal' = <<>>
    /\ merges' = 0 /\ plain' = 0
    /\ UNCHANGED <<base, unifierVars, queryVars, parserVars, mgrVars, dataVars, indicatorVars, configVars, cursorVars>>

MergeNext ==
    \/ \E other \in Substitutions, rev \in BOOLEAN : UnifyWith(other, rev)
    \/ RollBack
SpecMerge == MergeInit /\ [][MergeNext]_vars

\* C2: a roll back that follows one merge into an empty journal, whatever the
\* merge returned, restores the bindings the substitution had before the merge.
C2_RollbackIdentity ==
    (mlast.op = "rollBack" /\ mlast.n = 1 /\ mlast.plain = 0)
        => (mlast.ret = "done" /\ sigma = base)

\* a roll back after a merge that returned false part-way, with a closure to run
C2_Witness ==
    /\ mlast.op = "rollBack" /\ mlast.n = 1 /\ mlast.plain = 0
    /\ mlast.prev = "false" /\ mlast.undone >= 1
    /\ sigma = base /\ DOMAIN sigma # {}

RECURSIVE Reverse(_)
Reverse(seq) == IF seq = <<>> THEN <<>> ELSE Append(Reverse(Tail(seq)), Head(seq))

RECURSIVE RunOrder(_)
\* the closures of a journal in the order in which rollBack calls them: the
\* one at front(), then those of the journal after pop()
RunOrder(j) == IF j = <<>> THEN <<>> ELSE <<Reversible_front(j)>> \o RunOrder(Tail(j))

\* C22: a roll back runs the closures of the journal in last-in-first-out
\* order, the one pushed last first and the one pushed first last (the
\* journal holds them in the order they were pushed), and leaves the journal
\* empty.
C22_RollbackLIFO ==
    [][mlast'.op = "rollBack" =>
           /\ RunOrder(journal) = Reverse(journal)
           /\ journal' = <<>>]_vars

\* C23: a roll back that follows two or more merges into one journal, with no
\* merge in between that the journal does not record, restores the bindings
\* the substitution had before the first of these merges.
C23_ComposedRollback ==
    (mlast.op = "rollBack" /\ mlast.n >= 2 /\ mlast.plain = 0)
        => (mlast.ret = "done" /\ sigma = base)

(***************************************************************************)
(* C20: what a merge returns and leaves behind.                            *)
(***************************************************************************)
\* the results the construction of Unifier(t, t') can have
UnifierResults(t0, t1) == {o.res : o \in Unifier(t0, t1)}
\* the terms Unifier(t, t').apply() can return when the unifier exists
UnifiedTerms(t0, t1) ==
    {Unifier_apply(t0, t1, o) : o \in {u \in Unifier(t0, t1) : u.res = "true"}}

\* C20: sigma.unifyWith(other) returns false only if Unifier(t, t') does not
\* exist for the bindings t and t' that some variable has in sigma and in
\* other, and true only if it exists for every such variable; when it has
\* returned true, sigma binds the variables of both, a variable of other
\* that sigma did not bind to the term other gives it, a variable of both to
\* what Unifier(t, t').apply() returns, and any other variable of sigma to
\* the term it had.
C20_MergeResult ==
    (mlast.op = "unifyWith" /\ mlast.other # <<>>) =>
        LET other  == mlast.other[1]
            shared == DOMAIN base \cap DOMAIN other
        IN /\ mlast.ret = "false" =>
                  \E k \in shared : "false" \in UnifierResults(base[k], other[k])
           /\ mlast.ret = "crash" =>
                  \E k \in shared : "crash" \in UnifierResults(base[k], other[k])
           /\ mlast.ret = "true" =>
                  /\ \A k \in shared : "true" \in UnifierResults(base[k], other[k])
                  /\ DOMAIN sigma = DOMAIN base \cup DOMAIN other
                  /\ \A k \in DOMAIN other \ DOMAIN base : sigma[k] = other[k]
                  /\ \A k \in shared : sigma[k] \in UnifiedTerms(base[k], other[k])
                  /\ \A k \in DOMAIN base \ DOMAIN other : sigma[k] = base[k]

\* a merge has returned true: it has bound X, which both substitutions bind,
\* to a new term, and Y, which only `other` binds, to the term of `other`
C20_Witness ==
    /\ mlast.op = "unifyWith" /\ mlast.other # <<>> /\ mlast.ret = "true"
    /\ "X" \in DOMAIN base /\ "X" \in DOMAIN mlast.other[1]
    /\ sigma["X"] # base["X"]
    /\ "Y" \notin DOMAIN base /\ "Y" \in DOMAIN mlast.other[1]
    /\ sigma["Y"] = mlast.other[1]["Y"]

\* the closure a merge of `other` into m pushes for the variable k
UndoFor(m, k) == IF k \in DOMAIN m THEN RestoreUndo(k, m[k]) ELSE EraseUndo(k)

\* a merge that was given the empty journal, as the first operation
FirstJournalled == mlast.op = "unifyWith" /\ mlast.other # <<>> /\ merges = 1

\* the journal holds one closure for each of the first n bindings of `other`
JournalOfFirst(other, n) ==
    /\ Len(journal) = n
    /\ \A i \in 1..n : journal[i] = UndoFor(base, SortedKeys(other)[i])

\* C24: a merge that is given a journal pushes one closure for every binding
\* of `other` that it inserts or overwrites: after a merge that returned true
\* the journal has grown by the size of `other`, after one that returned
\* false by the number of bindings before the first that did not unify; a
\* merge leaves the closures the journal held in place, and a merge without
\* a journal leaves the journal as it is.
C24_OneUndoPerStep ==
    /\ [](FirstJournalled =>
            LET other == mlast.other[1]
                keys  == SortedKeys(other)
            IN /\ mlast.ret = "true" => JournalOfFirst(other, Cardinality(DOMAIN other))
               /\ mlast.ret = "false" =>
                     \E i \in 1..Len(keys) :
                        /\ keys[i] \in DOMAIN base
                        /\ "false" \in UnifierResults(base[keys[i]], other[keys[i]])
                        /\ \A h \in 1..(i - 1) : keys[h] \in DOMAIN base =>
                               "true" \in UnifierResults(base[keys[h]], other[keys[h]])
                        /\ JournalOfFirst(other, i - 1))
    /\ [][mlast'.op = "unifyWith" =>
            /\ Len(journal') >= Len(journal)
            /\ SubSeq(journal', 1, Len(journal)) = journal
            /\ merges' = merges => journal' = journal]_vars

\* a merge with a journal has returned false at the second binding of
\* `other`, having pushed the closure for the first
C24_Witness ==
    /\ FirstJournalled /\ mlast.ret = "false"
    /\ Cardinality(DOMAIN mlast.other[1]) = 2
    /\ Len(journal) = 1

(***************************************************************************)
(* SpecSubstitution: a new Substitution and a sequence of up to MaxSets    *)
(* calls of set.  base is the mapping as it was before the last call,      *)
(* merges the number of calls, mlast the last call.                        *)
(***************************************************************************)
MaxSets == 3

SubstitutionInit ==
    /\ sigma = EmptyMapping /\ journal = <<>> /\ base = EmptyMapping
    /\ merges = 0 /\ plain = 0 /\ mlast = NoMerge
    /\ UnifierIdle /\ QueryIdle /\ ParserIdle /\ MgrIdle /\ DataIdle /\ IndicatorIdle
    /\ ConfigIdle /\ CursorIdle

\* sigma.set(Variable(n), t)
Set(n, t) ==
    /\ merges < MaxSets
    /\ sigma' = Substitution_set(sigma, n, t)
    /\ base' = sigma
    /\ merges' = merges + 1
    /\ mlast' = [op |-> "set", var |-> n, term |-> t]
    /\ UNCHANGED <<journal, plain, unifierVars, queryVars, parserVars, mgrVars, dataVars,
                   indicatorVars, configVars, cursorVars>>

SubstitutionNext == \E n \in MergeVarNames, t \in MergeTerms : Set(n, t)
SpecSubstitution == SubstitutionInit /\ [][SubstitutionNext]_vars

\* C29: after set(v, t), get(v) returns t and contains(v) is true, whether
\* or not v was bound before the call, and get and contains of every other
\* variable are as they were before it; get(v) returns the null term exactly
\* when v is not bound.
C29_SetGet ==
    /\ mlast.op = "set" =>
          /\ Substitution_get(sigma, mlast.var) = mlast.term
          /\ Substitution_contains(sigma, mlast.var)
          /\ \A v \in MergeVarNames \ {mlast.var} :
                /\ Substitution_get(sigma, v) = Substitution_get(base, v)
                /\ Substitution_contains(sigma, v) = Substitution_contains(base, v)
    /\ \A v \in MergeVarNames :
          Substitution_get(sigma, v) = NullTerm <=> ~Substitution_contains(sigma, v)

(***************************************************************************)
(* SpecQuery: one query of a reasoner, from startQuery to EOS.             *)
(*                                                                         *)
(* PrologReasoner.h declares ActiveQuery {outputStream, goal,              *)
(* hasReceivedAllInput, runner, mutex}, Runner and finishRunner; the       *)
(* bodies of startQuery, pushSubstitution, finishQuery, finishRunner and   *)
(* Runner::run are not part of the sources, and are modelled from the      *)
(* reasoner contract: each call runs under the mutex of the query map,     *)
(* and the ActiveQuery is destroyed when EOS is pushed.                    *)
(*   qstate   the ActiveQuery: active while it is in activeQueries_        *)
(*   runners  runner id -> [pc, stop, sent]; pc is "queued", "running" or  *)
(*            "done"; the runner list of the ActiveQuery holds the runners *)
(*            that are not "done"                                          *)
(*   chan     what the channel has received, in order                      *)
(***************************************************************************)
MaxRunners == 2
MaxAnswers == 2
EOS == [eos |-> TRUE]
Answer(r, k) == [runner |-> r, seq |-> k]

\* the runner list of the ActiveQuery
RunnerList == {r \in DOMAIN runners : runners[r].pc # "done"}

QueryInit ==
    /\ qstate = NoQuery /\ runners = EmptyMapping /\ chan = <<>> /\ nextRunner = 0
    /\ UnifierIdle /\ MergeIdle /\ ParserIdle /\ MgrIdle /\ DataIdle /\ IndicatorIdle /\ ConfigIdle /\ CursorIdle

\* startQuery(queryID, outputStream, goal)
StartQuery ==
    /\ ~qstate.started
    /\ qstate' = [qstate EXCEPT !.started = TRUE, !.active = TRUE]
    /\ UNCHANGED <<runners, chan, nextRunner, unifierVars, mergeVars, parserVars, mgrVars, dataVars, indicatorVars, configVars, cursorVars>>

\* pushSubstitution(queryID, bindings): one more runner for the query
PushSubstitution ==
    /\ qstate.active
    /\ nextRunner < MaxRunners
    /\ runners' = [r \in DOMAIN runners \cup {nextRunner + 1} |->
                     IF r = nextRunner + 1
                     THEN [pc |-> "queued", stop |-> FALSE, sent |-> 0]
                     ELSE runners[r]]
    /\ nextRunner' = nextRunner + 1
    /\ UNCHANGED <<qstate, chan, unifierVars, mergeVars, parserVars, mgrVars, dataVars, indicatorVars, configVars, cursorVars>>

\* a worker takes the runner from the queue of the pool
RunnerStart(r) ==
    /\ runners[r].pc = "queued"
    /\ runners' = [runners EXCEPT ![r].pc = "running"]
    /\ UNCHANGED <<qstate, chan, nextRunner, unifierVars, mergeVars, parserVars, mgrVars, dataVars, indicatorVars, configVars, cursorVars>>

\* Runner::run publishes one more answer
RunnerAnswer(r) ==
    /\ runners[r].pc = "running"
    /\ runners[r].sent < MaxAnswers
    /\ chan' = Append(chan, Answer(r, runners[r].sent + 1))
    /\ runners' = [runners EXCEPT ![r].sent = @ + 1]
    /\ UNCHANGED <<qstate, nextRunner, unifierVars, mergeVars, parserVars, mgrVars, dataVars, indicatorVars, configVars, cursorVars>>

\* (mutant: no runner takes itself for the last one)
IsRequestFinished_Never(left) == FALSE
\* does the runner that leaves the list `left` behind finish the request?
IsRequestFinished(left) == left = {} /\ qstate.inputComplete

\* finishRunner(queryID, runner): the runner has completed, or has seen its
\* stop flag; it leaves the runner list, and the last one out pushes EOS
FinishRunner(r) ==
    /\ runners[r].pc = "running"
    /\ runners' = [runners EXCEPT ![r].pc = "done"]
    /\ IF IsRequestFinished(RunnerList \ {r})
       THEN /\ chan' = Append(chan, EOS)
            /\ qstate' = [qstate EXCEPT !.active = FALSE]
       ELSE UNCHANGED <<chan, qstate>>
    /\ UNCHANGED <<nextRunner, unifierVars, mergeVars, parserVars, mgrVars, dataVars, indicatorVars, configVars, cursorVars>>

\* (mutant: finishQuery does not look at the runner list)
NoRunnerLeft_Always == TRUE
\* (mutant: finishQuery looks only at the runners a worker has taken)
NoRunnerLeft_NoneRunning == \A r \in DOMAIN runners : runners[r].pc # "running"
\* finishQuery's test that no runner of the query is left
NoRunnerLeft == RunnerList = {}

\* finishQuery(queryID, isImmediateStopRequested)
FinishQuery(immediate) ==
    /\ qstate.active
    /\ IF NoRunnerLeft
       THEN /\ chan' = Append(chan, EOS)
            /\ qstate' = [qstate EXCEPT !.inputComplete = TRUE, !.active = FALSE,
                                        !.finishCalled = TRUE, !.immediate = immediate]
            /\ UNCHANGED runners
       ELSE /\ qstate' = [qstate EXCEPT !.inputComplete = TRUE, !.finishCalled = TRUE,
                                        !.immediate = immediate]
            /\ runners' = [r \in DOMAIN runners |->
                             IF immediate /\ runners[r].pc # "done"
                             THEN [runners[r] EXCEPT !.stop = TRUE]
                             ELSE runners[r]]
            /\ UNCHANGED chan
    /\ UNCHANGED <<nextRunner, unifierVars, mergeVars, parserVars, mgrVars, dataVars, indicatorVars, configVars, cursorVars>>

QueryNext ==
    \/ StartQuery
    \/ PushSubstitution
    \/ \E r \in DOMAIN runners : RunnerStart(r)
    \/ \E r \in DOMAIN runners : RunnerAnswer(r)
    \/ \E r \in DOMAIN runners : FinishRunner(r)
    \/ \E immediate \in BOOLEAN : FinishQuery(immediate)
SpecQuery == QueryInit /\ [][QueryNext]_vars

\* the workers are scheduled fairly: a runner in the queue is taken by a
\* worker, and a runner that runs completes or sees its stop flag
Fairness ==
    \A r \in 1..MaxRunners :
        /\ WF_vars(r \in DOMAIN runners /\ RunnerStart(r))
        /\ WF_vars(r \in DOMAIN runners /\ FinishRunner(r))
SpecQueryFair == QueryInit /\ [][QueryNext]_vars /\ Fairness

EOSCount == Cardinality({i \in 1..Len(chan) : chan[i] = EOS})

Drained ==
    /\ (qstate.finishCalled /\ ~qstate.immediate /\ EOSCount = 1) =>
           /\ \A r \in DOMAIN runners : runners[r].pc = "done"
           /\ chan[Len(chan)] = EOS
           /\ \A r \in DOMAIN runners : \A k \in 1..runners[r].sent :
                  \E i \in 1..(Len(chan) - 1) : chan[i] = Answer(r, k)
    /\ qstate.active => ENABLED FinishQuery(FALSE)
\* C17: a finishQuery without an immediate stop changes no stop flag; after
\* it, EOS is on the channel only when every runner of the query has
\* completed, after every answer the runners have published; finishQuery
\* itself can be called, and returns, while runners are still at work.
C17_DrainBeforeEOS ==
    /\ []Drained
    /\ [][~qstate'.immediate =>
              \A r \in DOMAIN runners : runners'[r].stop = runners[r].stop]_vars

\* finishQuery was called without an immediate stop, two runners have each
\* published an answer and completed, and EOS is on the channel
C17_Witness ==
    /\ qstate.finishCalled /\ ~qstate.immediate
    /\ EOSCount = 1
    /\ \A r \in 1..2 : r \in DOMAIN runners /\ runners[r].sent >= 1 /\ runners[r].pc = "done"

(***************************************************************************)
(* The query parser (QueryParser.cpp).                                     *)
(*                                                                         *)
(* A query string is a sequence of one-character strings.  A rule is an    *)
(* operator applied to the string s at position p; it yields               *)
(*     [st |-> "ok", pos |-> the position after the match, val |-> value]  *)
(*     [st |-> "fail"]                       the rule does not match at p  *)
(*     [st |-> "throw", err |-> e]           a semantic action has thrown  *)
(* Alternatives are ordered, and a rule that has matched is not entered    *)
(* again (boost::spirit::qi).  Rules of the types TermRule and StringRule  *)
(* have no skipper: white space is skipped before such a rule when a rule  *)
(* with a skipper calls it, and nowhere inside it.                         *)
(***************************************************************************)
Lower == {"a", "b", "c", "d", "e", "f", "g", "h", "i", "j", "k", "l", "m",
          "n", "o", "p", "q", "r", "s", "t", "u", "v", "w", "x", "y", "z"}
Upper == {"A", "B", "C", "D", "E", "F", "G", "H", "I", "J", "K", "L", "M",
          "N", "O", "P", "Q", "R", "S", "T", "U", "V", "W", "X", "Y", "Z"}
Digit == {"0", "1", "2", "3", "4", "5", "6", "7", "8", "9"}
Alpha == Lower \cup Upper
Alnum == Alpha \cup Digit
Space == {" "}
WordChar == Alnum \cup {"_"}

Fail      == [st |-> "fail"]
Ok(p, v)  == [st |-> "ok", pos |-> p, val |-> v]
Throw(e)  == [st |-> "throw", err |-> e]

At(s, p, C) == p <= Len(s) /\ s[p] \in C

RECURSIVE While(_, _, _)
\* the position after the longest run of characters of C that starts at p
While(s, p, C) == IF At(s, p, C) THEN While(s, p + 1, C) ELSE p

RECURSIVE Until(_, _, _)
\* the position of the first c at or after p, Len(s) + 1 when there is none
Until(s, p, c) == IF p > Len(s) \/ s[p] = c THEN p ELSE Until(s, p + 1, c)

\* the skipper ascii::space
Skip(s, p) == While(s, p, Space)

\* a literal character
Lit(s, p, c) == IF At(s, p, {c}) THEN Ok(p + 1, c) ELSE Fail

\* Every rule is applied through rule(r, s, p), r being the rule's name, so
\* that the rules can refer to each other in any order.
RECURSIVE rule(_, _, _)

\* '\'' >> +(char_ - '\'') >> '\''
Quoted(s, p, q) ==
    IF ~At(s, p, {q}) THEN Fail
    ELSE LET e == Until(s, p + 1, q)
         IN IF e > p + 1 /\ e <= Len(s) THEN Ok(e + 1, SubSeq(s, p + 1, e - 1)) ELSE Fail
singleQuotes(s, p) == Quoted(s, p, "'")
doubleQuotes(s, p) == Quoted(s, p, "\"")

\* raw[lower >> *(alnum | '_')] and raw[upper >> *(alnum | '_')]
Word(s, p, First) ==
    IF At(s, p, First)
    THEN LET e == While(s, p + 1, WordChar) IN Ok(e, SubSeq(s, p, e - 1))
    ELSE Fail
lowerPrefix(s, p) == Word(s, p, Lower)
upperPrefix(s, p) == Word(s, p, Upper)

\* semweb::PrefixRegistry: the registered prefixes, and for each the text
\* that an entity name is appended to
RegisteredPrefixes == {<<"o", "w", "l">>, <<"r">>}
PrefixExpansion(ns) == <<"h", "/">> \o ns \o <<"#">>
PrefixRegistry_createIRI(prefix, name) ==
    IF prefix \in RegisteredPrefixes THEN <<PrefixExpansion(prefix) \o name>> ELSE <<>>

IriError(name, prefix) == [kind |-> "iri", name |-> name, prefix |-> prefix]
\* createIRI: the IRI, or QueryError
createIRI(p, prefix, name) ==
    LET uri == PrefixRegistry_createIRI(prefix, name)
    IN IF uri # <<>> THEN Ok(p, uri[1]) ELSE Throw(IriError(name, prefix))

iri_ns(s, p) == Word(s, p, Alpha)
iri_entity(s, p) ==
    LET q == rule("singleQuotes", s, p) IN IF q.st = "ok" THEN q ELSE Word(s, p, Alpha)
\* (iri_ns >> ':' >> iri_entity)[_val = createIRI(_1, _3)]
iri(s, p) ==
    LET ns == rule("iri_ns", s, p) IN
    IF ns.st # "ok" THEN Fail
    ELSE LET c == Lit(s, ns.pos, ":") IN
         IF c.st # "ok" THEN Fail
         ELSE LET e == rule("iri_entity", s, c.pos) IN
              IF e.st # "ok" THEN Fail ELSE createIRI(e.pos, ns.val, e.val)

\* (mutant: the plain word is tried before the IRI)
atomRaw_WordFirst(s, p) ==
    LET q == rule("singleQuotes", s, p) IN
    IF q.st = "ok" THEN q
    ELSE LET w == rule("lowerPrefix", s, p) IN IF w.st = "ok" THEN w ELSE rule("iri", s, p)
\* atomRaw %= singleQuotes | iri | lowerPrefix
atomRaw(s, p) ==
    LET q == rule("singleQuotes", s, p) IN
    IF q.st = "ok" THEN q
    ELSE LET i == rule("iri", s, p) IN IF i.st # "fail" THEN i ELSE rule("lowerPrefix", s, p)

(***************************************************************************)
(* qi::double_.  The value of a number is kept as sign, mantissa and       *)
(* decimal exponent, normalised so that equal numbers are equal records:   *)
(* "10", "10.0" and "1e1" are all [neg FALSE, m 1, e 1].  Besides digits   *)
(* the parser takes "nan" and "inf"/"infinity" in either case.             *)
(***************************************************************************)
RECURSIVE Normal(_, _)
Normal(m, e) == IF m = 0 THEN <<0, 0>>
                ELSE IF m % 10 = 0 THEN Normal(m \div 10, e + 1) ELSE <<m, e>>
Finite(neg, m, e) == [kind |-> "fin", neg |-> neg, m |-> Normal(m, e)[1], e |-> Normal(m, e)[2]]
Infinite(neg)     == [kind |-> "inf", neg |-> neg]
NotANumber        == [kind |-> "nan"]

DigitValue(c) == CHOOSE d \in 0..9 : <<"0", "1", "2", "3", "4", "5", "6", "7", "8", "9">>[d + 1] = c
RECURSIVE DigitsValue(_, _, _)
\* the value of the digits s[p..e-1]
DigitsValue(s, p, e) == IF p >= e THEN 0
                        ELSE DigitsValue(s, p, e - 1) * 10 + DigitValue(s[e - 1])
RECURSIVE Pow10(_)
Pow10(n) == IF n = 0 THEN 1 ELSE 10 * Pow10(n - 1)

\* detail::string_parse(lc, uc, ...): the word in either case, letter by letter
Keyword(s, p, lc, uc) ==
    IF /\ p + Len(lc) - 1 <= Len(s)
       /\ \A i \in 1..Len(lc) : s[p + i - 1] \in {lc[i], uc[i]}
    THEN p + Len(lc) ELSE 0

\* the exponent: (e|E) >> int, dropped as a whole when no int follows
Exponent(s, p) ==
    IF ~At(s, p, {"e", "E"}) THEN [pos |-> p, exp |-> 0]
    ELSE LET q  == IF At(s, p + 1, {"+", "-"}) THEN p + 2 ELSE p + 1
             e  == While(s, q, Digit)
             v  == DigitsValue(s, q, e)
         IN IF e = q THEN [pos |-> p, exp |-> 0]
            ELSE [pos |-> e, exp |-> IF At(s, p + 1, {"-"}) THEN 0 - v ELSE v]

double_(s, p) ==
    LET neg == At(s, p, {"-"})
        p1  == IF At(s, p, {"+", "-"}) THEN p + 1 ELSE p
        p2  == While(s, p1, Digit)
        got == p2 > p1
        n   == DigitsValue(s, p1, p2)
        nan == Keyword(s, p1, <<"n", "a", "n">>, <<"N", "A", "N">>)
        inf == Keyword(s, p1, <<"i", "n", "f">>, <<"I", "N", "F">>)
    IN IF ~got /\ nan > 0
       THEN IF At(s, nan, {"("})
            THEN LET close == Until(s, nan + 1, ")")
                 IN IF close <= Len(s) THEN Ok(close + 1, NotANumber) ELSE Fail
            ELSE Ok(nan, NotANumber)
       ELSE IF ~got /\ inf > 0
       THEN LET rest == Keyword(s, inf, <<"i", "n", "i", "t", "y">>, <<"I", "N", "I", "T", "Y">>)
            IN Ok(IF rest > 0 THEN rest ELSE inf, Infinite(neg))
       ELSE IF At(s, p2, {"."})
       THEN LET p3 == While(s, p2 + 1, Digit)
                fd == p3 - (p2 + 1)
                x  == Exponent(s, p3)
            IN IF fd = 0 /\ ~got THEN Fail
               ELSE Ok(x.pos, Finite(neg, n * Pow10(fd) + DigitsValue(s, p2 + 1, p3), x.exp - fd))
       ELSE IF ~got THEN Fail
       ELSE LET x == Exponent(s, p2) IN Ok(x.pos, Finite(neg, n, x.exp))

(***************************************************************************)
(* Constants, option lists and arguments (TermRule: no skipper).           *)
(***************************************************************************)
\* atom = atomRaw[_val = ptr_<StringTerm>()(_1)]
atom(s, p) ==
    LET r == rule("atomRaw", s, p) IN IF r.st = "ok" THEN Ok(r.pos, StringTerm(r.val)) ELSE r
\* string = doubleQuotes[_val = ptr_<StringTerm>()(_1)]
string(s, p) ==
    LET r == rule("doubleQuotes", s, p) IN
    IF r.st = "ok" THEN Ok(r.pos, StringTerm(r.val)) ELSE r
\* number = double_[_val = ptr_<DoubleTerm>()(_1)]
number(s, p) ==
    LET r == rule("double_", s, p) IN IF r.st = "ok" THEN Ok(r.pos, DoubleTerm(r.val)) ELSE r

\* constant %= atom | string | number
constant(s, p) ==
    LET a == rule("atom", s, p) IN
    IF a.st # "fail" THEN a
    ELSE LET b == rule("string", s, p) IN IF b.st # "fail" THEN b ELSE rule("number", s, p)

equalFunctor == <<"=">>
\* keyvalue = (atom >> '=' >> constant)[_val = Predicate("=", {_1, _3})]
keyvalue(s, p) ==
    LET k == rule("atom", s, p) IN
    IF k.st # "ok" THEN k
    ELSE LET e == Lit(s, k.pos, "=") IN
         IF e.st # "ok" THEN Fail
         ELSE LET v == rule("constant", s, e.pos) IN
              IF v.st # "ok" THEN v
              ELSE Ok(v.pos, Predicate(equalFunctor, <<k.val, v.val>>))

\* option %= keyvalue | constant
option(s, p) ==
    LET k == rule("keyvalue", s, p) IN IF k.st # "fail" THEN k ELSE rule("constant", s, p)

\* white space is skipped at p if the calling rule has the skipper
SkipIf(sk, s, p) == IF sk THEN Skip(s, p) ELSE p

RECURSIVE listFrom(_, _, _, _, _)
\* the rest of (r % ','), after the elements acc that end before p; sk tells
\* whether the calling rule has the skipper
listFrom(r, s, p, acc, sk) ==
    LET c == Lit(s, SkipIf(sk, s, p), ",") IN
    IF c.st # "ok" THEN Ok(p, acc)
    ELSE LET o == rule(r, s, SkipIf(sk, s, c.pos)) IN
         IF o.st = "throw" THEN o
         ELSE IF o.st = "fail" THEN Ok(p, acc)
         ELSE listFrom(r, s, o.pos, Append(acc, o.val), sk)

\* r % ',' : one r, and more after commas
sepList(r, s, p, sk) ==
    LET o == rule(r, s, SkipIf(sk, s, p)) IN
    IF o.st # "ok" THEN o ELSE listFrom(r, s, o.pos, <<o.val>>, sk)

\* '[' >> (r % ',') >> ']', made a ListTerm
bracketList(r, s, p) ==
    LET b == Lit(s, p, "[") IN
    IF b.st # "ok" THEN Fail
    ELSE LET l == sepList(r, s, b.pos, FALSE) IN
         IF l.st # "ok" THEN l
         ELSE LET e == Lit(s, l.pos, "]") IN
              IF e.st # "ok" THEN Fail ELSE Ok(e.pos, ListTerm(l.val))

\* options = ('[' >> (option % ',') >> ']')[_val = ptr_<ListTerm>()(_2)]
options(s, p) == bracketList("option", s, p)

\* nil = attr(ListTerm::nil())
nil(s, p) == Ok(p, ListTerm(<<>>))

\* constantList = ('[' >> (constant % ',') >> ']')[_val = ptr_<ListTerm>()(_2)]
constantList(s, p) == bracketList("constant", s, p)

\* variable = upperPrefix[_val = ptr_<Variable>()(_1)]
variable(s, p) ==
    LET r == rule("upperPrefix", s, p) IN IF r.st = "ok" THEN Ok(r.pos, Variable(r.val)) ELSE r

\* (atomRaw >> '(' >> (argument % ',') >> ')')[_val = ptr_<Predicate>()(_1, _3)]:
\* the rule `compound` (sk FALSE) and the rule `predicateWithArgs` (sk TRUE)
functorWithArgs(s, p, sk) ==
    LET f == rule("atomRaw", s, SkipIf(sk, s, p)) IN
    IF f.st # "ok" THEN f
    ELSE LET b == Lit(s, SkipIf(sk, s, f.pos), "(") IN
         IF b.st # "ok" THEN Fail
         ELSE LET l == sepList("argument", s, b.pos, sk) IN
              IF l.st # "ok" THEN l
              ELSE LET e == Lit(s, SkipIf(sk, s, l.pos), ")") IN
                   IF e.st # "ok" THEN Fail
                   ELSE Ok(e.pos, Predicate(f.val, l.val))

compound(s, p) == functorWithArgs(s, p, FALSE)

\* argument %= compound | variable | constant | constantList
argument(s, p) ==
    LET c == rule("compound", s, p) IN
    IF c.st # "fail" THEN c
    ELSE LET v == rule("variable", s, p) IN
         IF v.st # "fail" THEN v
         ELSE LET k == rule("constant", s, p) IN
              IF k.st # "fail" THEN k ELSE rule("constantList", s, p)

\* predicate %= predicateWithArgs | predicateNullary
predicateWithArgs(s, p) == functorWithArgs(s, p, TRUE)
predicateNullary(s, p) ==
    LET f == rule("atomRaw", s, Skip(s, p)) IN
    IF f.st = "ok" THEN Ok(f.pos, Predicate(f.val, <<>>)) ELSE f
predicate(s, p) ==
    LET w == rule("predicateWithArgs", s, p) IN
    IF w.st # "fail" THEN w ELSE rule("predicateNullary", s, p)

(***************************************************************************)
(* Formulas and modal operators.  An optional value is <<>> or <<v>>.      *)
(***************************************************************************)
PredicateFormula(t) == [ftype |-> "PREDICATE", pred |-> t]
Negation(f)         == [ftype |-> "NEGATION", arg |-> f]
Conjunction(fs)     == [ftype |-> "CONJUNCTION", formulae |-> fs]
Disjunction(fs)     == [ftype |-> "DISJUNCTION", formulae |-> fs]
Implication(a, b)   == [ftype |-> "IMPLICATION", formulae |-> <<a, b>>]
ModalFormula(op, f) == [ftype |-> "MODAL", op |-> op, arg |-> f]

\* the operands a formula contributes to a connective of the given type
Operands(f, ftype) == IF f.ftype = ftype THEN f.formulae ELSE <<f>>
\* operator& and operator| of formulas: operands of the same kind are flattened
And(a, b) == Conjunction(Operands(a, "CONJUNCTION") \o Operands(b, "CONJUNCTION"))
Or(a, b)  == Disjunction(Operands(a, "DISJUNCTION") \o Operands(b, "DISJUNCTION"))
\* operator~ of formulas
Not(a)    == Negation(a)

KnowledgeModality(agent)      == [sym |-> "K", agent |-> agent]
BeliefModality(agent, conf)   == [sym |-> "B", agent |-> agent, confidence |-> conf]
PastModality(sym, begin, end) == [sym |-> sym, begin |-> begin, end |-> end]

OptionError(o) == [kind |-> "option", option |-> o]
\* reportUnrecognized
reportUnrecognized(o) == Throw(OptionError(o))

selfAgent == <<"s", "e", "l", "f">>
IsKey(key, names) == key.type = "STRING" /\ key.str \in names
AgentKeys      == {<<"a", "g", "e", "n", "t">>, <<"a">>}
ConfidenceKeys == {<<"c", "o", "n", "f", "i", "d", "e", "n", "c", "e">>, <<"c">>}
BeginKeys      == {<<"b", "e", "g", "i", "n">>, <<"s", "i", "n", "c", "e">>}
EndKeys        == {<<"e", "n", "d">>, <<"u", "n", "t", "i", "l">>}

\* is the option a key-value pair that sets one of `names` to a `vtype` value?
KeyOption(o, names, vtype) ==
    /\ o.type = "PREDICATE"
    /\ arity(o) = 2
    /\ o.args[2].type = vtype
    /\ IsKey(o.args[1], names)

RECURSIVE createKFrom(_, _, _)
\* the loop of createK over the options from the i-th on
createKFrom(items, i, agent) ==
    IF i > Len(items)
    THEN Ok(0, KnowledgeModality(IF agent # <<>> /\ agent[1] # selfAgent THEN agent ELSE <<>>))
    ELSE LET o == items[i] IN
         IF agent = <<>> /\ o.type = "STRING" THEN createKFrom(items, i + 1, <<o.str>>)
         ELSE IF agent = <<>> /\ KeyOption(o, AgentKeys, "STRING")
              THEN createKFrom(items, i + 1, <<o.args[2].str>>)
              ELSE reportUnrecognized(o)
createK(optionsTerm) == createKFrom(optionsTerm.items, 1, <<>>)

\* (mutant: a positional option overwrites a value that is already set)
PositionalB_Overwrite(o, agent, conf) ==
    IF o.type = "STRING" THEN "agent"
    ELSE IF o.type = "DOUBLE" THEN "confidence" ELSE "none"
\* which value of B a positional option sets, given the values set so far
PositionalB(o, agent, conf) ==
    IF agent = <<>> /\ o.type = "STRING" THEN "agent"
    ELSE IF conf = <<>> /\ o.type = "DOUBLE" THEN "confidence" ELSE "none"

RECURSIVE createBFrom(_, _, _, _)
\* the loop of createB over the options from the i-th on
createBFrom(items, i, agent, conf) ==
    IF i > Len(items)
    THEN Ok(0, BeliefModality(IF agent # <<>> /\ agent[1] = selfAgent THEN <<>> ELSE agent, conf))
    ELSE LET o == items[i] IN
         IF PositionalB(o, agent, conf) = "agent" THEN createBFrom(items, i + 1, <<o.str>>, conf)
         ELSE IF PositionalB(o, agent, conf) = "confidence"
              THEN createBFrom(items, i + 1, agent, <<o.num>>)
         ELSE IF agent = <<>> /\ KeyOption(o, AgentKeys, "STRING")
              THEN createBFrom(items, i + 1, <<o.args[2].str>>, conf)
         ELSE IF o.type = "PREDICATE" /\ conf = <<>> /\ KeyOption(o, ConfidenceKeys, "DOUBLE")
              THEN createBFrom(items, i + 1, agent, <<o.args[2].num>>)
         ELSE reportUnrecognized(o)
createB(optionsTerm) == createBFrom(optionsTerm.items, 1, <<>>, <<>>)

RECURSIVE readTimeIntervalFrom(_, _, _, _)
\* the loop of readTimeInterval over the options from the i-th on; the
\* result is the pair of the optional begin and end
readTimeIntervalFrom(items, i, begin, end) ==
    IF i > Len(items) THEN Ok(0, <<begin, end>>)
    ELSE LET o == items[i] IN
         IF o.type = "DOUBLE"
         THEN IF begin = <<>> THEN readTimeIntervalFrom(items, i + 1, <<o.num>>, end)
              ELSE IF end = <<>> THEN readTimeIntervalFrom(items, i + 1, begin, <<o.num>>)
              ELSE reportUnrecognized(o)
         ELSE IF begin = <<>> /\ KeyOption(o, BeginKeys, "DOUBLE")
              THEN readTimeIntervalFrom(items, i + 1, <<o.args[2].num>>, end)
         ELSE IF o.type = "PREDICATE" /\ end = <<>> /\ KeyOption(o, EndKeys, "DOUBLE")
              THEN readTimeIntervalFrom(items, i + 1, begin, <<o.args[2].num>>)
         ELSE reportUnrecognized(o)
readTimeInterval(optionsTerm) == readTimeIntervalFrom(optionsTerm.items, 1, <<>>, <<>>)

\* createP and createH: P() or H() without an interval, else P(interval)
createPast(sym, optionsTerm) ==
    LET r == readTimeInterval(optionsTerm) IN
    IF r.st # "ok" THEN r ELSE Ok(0, PastModality(sym, r.val[1], r.val[2]))

\* the modal operator that createB, createK, createP or createH makes
createModalOperator(sym, optionsTerm) ==
    CASE sym = "B" -> createB(optionsTerm)
      [] sym = "K" -> createK(optionsTerm)
      [] OTHER     -> createPast(sym, optionsTerm)

(***************************************************************************)
(* Formula rules (FormulaRule: skipper ascii::space).                      *)
(***************************************************************************)
LitSkip(s, p, c) == Lit(s, Skip(s, p), c)
LitAny(s, p, C) ==
    LET q == Skip(s, p) IN IF At(s, q, C) THEN Ok(q + 1, s[q]) ELSE Fail
\* the literal "->"
Arrow(s, p) ==
    LET q == Skip(s, p) IN
    IF At(s, q, {"-"}) /\ At(s, q + 1, {">"}) THEN Ok(q + 2, "->") ELSE Fail

\* (mutant: only ',' separates the operands of a conjunction)
ConjunctionSeparators_OnlyComma == {","}
\* (mutant: ';' also separates the operands of a conjunction)
ConjunctionSeparators_WithSemicolon == {",", "&", ";"}
\* (qi::char_(',') | qi::char_('&')) and (qi::char_(';') | qi::char_('|'))
ConjunctionSeparators == {",", "&"}
DisjunctionSeparators == {";", "|"}

\* brackets %= '(' >> formula >> ')'
brackets(s, p) ==
    LET b == LitSkip(s, p, "(") IN
    IF b.st # "ok" THEN Fail
    ELSE LET f == rule("formula", s, b.pos) IN
         IF f.st # "ok" THEN f
         ELSE LET e == LitSkip(s, f.pos, ")") IN
              IF e.st # "ok" THEN Fail ELSE Ok(e.pos, f.val)

\* (r | brackets)
OrBrackets(r, s, p) ==
    LET u == rule(r, s, p) IN IF u.st # "fail" THEN u ELSE rule("brackets", s, p)

\* negation = ('~' >> (unary | brackets))[_val = ~_1]
negation(s, p) ==
    LET t == LitSkip(s, p, "~") IN
    IF t.st # "ok" THEN Fail
    ELSE LET f == OrBrackets("unary", s, t.pos) IN
         IF f.st # "ok" THEN f ELSE Ok(f.pos, Not(f.val))

\* options | nil
optionsOrNil(s, p) ==
    LET o == rule("options", s, Skip(s, p)) IN
    IF o.st # "fail" THEN o ELSE rule("nil", s, Skip(s, p))

\* (sym >> (options | nil) >> (unary | brackets))[_val = ModalFormula(create(_1), _2)]
modal(s, p, sym) ==
    LET m == LitSkip(s, p, sym) IN
    IF m.st # "ok" THEN Fail
    ELSE LET o == optionsOrNil(s, m.pos) IN
         IF o.st # "ok" THEN o
         ELSE LET f == OrBrackets("unary", s, o.pos) IN
              IF f.st # "ok" THEN f
              ELSE LET op == createModalOperator(sym, o.val) IN
                   IF op.st # "ok" THEN op ELSE Ok(f.pos, ModalFormula(op.val, f.val))
belief(s, p)     == modal(s, p, "B")
knowledge(s, p)  == modal(s, p, "K")
oncePast(s, p)   == modal(s, p, "P")
alwaysPast(s, p) == modal(s, p, "H")

\* modalFormula %= belief | knowledge | oncePast | alwaysPast
modalFormula(s, p) ==
    LET b == rule("belief", s, p) IN
    IF b.st # "fail" THEN b
    ELSE LET k == rule("knowledge", s, p) IN
         IF k.st # "fail" THEN k
         ELSE LET o == rule("oncePast", s, p) IN
              IF o.st # "fail" THEN o ELSE rule("alwaysPast", s, p)

\* unary %= modalFormula | negation | predicate
unary(s, p) ==
    LET m == rule("modalFormula", s, p) IN
    IF m.st # "fail" THEN m
    ELSE LET n == rule("negation", s, p) IN
         IF n.st # "fail" THEN n
         ELSE LET a == rule("predicate", s, p) IN
              IF a.st = "ok" THEN Ok(a.pos, PredicateFormula(a.val)) ELSE a

\* conjunction = ((unary | brackets) >> (',' | '&') >> (conjunction | brackets))[_1 & _3]
\*             | unary
conjunction(s, p) ==
    LET a == OrBrackets("unary", s, p)
        first ==
            IF a.st # "ok" THEN a
            ELSE LET c == LitAny(s, a.pos, ConjunctionSeparators) IN
                 IF c.st # "ok" THEN Fail
                 ELSE LET b == OrBrackets("conjunction", s, c.pos) IN
                      IF b.st # "ok" THEN b ELSE Ok(b.pos, And(a.val, b.val))
    IN IF first.st # "fail" THEN first ELSE rule("unary", s, p)

\* disjunction = ((conjunction | brackets) >> (';' | '|') >> (disjunction | brackets))[_1 | _3]
\*             | conjunction
disjunction(s, p) ==
    LET a == OrBrackets("conjunction", s, p)
        first ==
            IF a.st # "ok" THEN a
            ELSE LET c == LitAny(s, a.pos, DisjunctionSeparators) IN
                 IF c.st # "ok" THEN Fail
                 ELSE LET b == OrBrackets("disjunction", s, c.pos) IN
                      IF b.st # "ok" THEN b ELSE Ok(b.pos, Or(a.val, b.val))
    IN IF first.st # "fail" THEN first ELSE rule("conjunction", s, p)

\* implication = ((disjunction | brackets) >> "->" >> (implication | brackets))
\*                   [_val = Implication(_1, _2)]
\*             | disjunction
implication(s, p) ==
    LET a == OrBrackets("disjunction", s, p)
        first ==
            IF a.st # "ok" THEN a
            ELSE LET c == Arrow(s, a.pos) IN
                 IF c.st # "ok" THEN Fail
                 ELSE LET b == OrBrackets("implication", s, c.pos) IN
                      IF b.st # "ok" THEN b ELSE Ok(b.pos, Implication(a.val, b.val))
    IN IF first.st # "fail" THEN first ELSE rule("disjunction", s, p)

\* formula %= implication | brackets
formula(s, p) == OrBrackets("implication", s, p)

\* the rule named r, applied to s at p
rule(r, s, p) ==
    CASE r = "singleQuotes"      -> singleQuotes(s, p)
      [] r = "doubleQuotes"      -> doubleQuotes(s, p)
      [] r = "lowerPrefix"       -> lowerPrefix(s, p)
      [] r = "upperPrefix"       -> upperPrefix(s, p)
      [] r = "atomRaw"           -> atomRaw(s, p)
      [] r = "iri_ns"            -> iri_ns(s, p)
      [] r = "iri_entity"        -> iri_entity(s, p)
      [] r = "iri"               -> iri(s, p)
      [] r = "double_"           -> double_(s, p)
      [] r = "atom"              -> atom(s, p)
      [] r = "string"            -> string(s, p)
      [] r = "number"            -> number(s, p)
      [] r = "keyvalue"          -> keyvalue(s, p)
      [] r = "option"            -> option(s, p)
      [] r = "options"           -> options(s, p)
      [] r = "nil"               -> nil(s, p)
      [] r = "constant"          -> constant(s, p)
      [] r = "constantList"      -> constantList(s, p)
      [] r = "variable"          -> variable(s, p)
      [] r = "compound"          -> compound(s, p)
      [] r = "argument"          -> argument(s, p)
      [] r = "predicateWithArgs" -> predicateWithArgs(s, p)
      [] r = "predicateNullary"  -> predicateNullary(s, p)
      [] r = "predicate"         -> predicate(s, p)
      [] r = "brackets"          -> brackets(s, p)
      [] r = "negation"          -> negation(s, p)
      [] r = "belief"            -> belief(s, p)
      [] r = "knowledge"         -> knowledge(s, p)
      [] r = "oncePast"          -> oncePast(s, p)
      [] r = "alwaysPast"        -> alwaysPast(s, p)
      [] r = "modalFormula"      -> modalFormula(s, p)
      [] r = "unary"             -> unary(s, p)
      [] r = "conjunction"       -> conjunction(s, p)
      [] r = "disjunction"       -> disjunction(s, p)
      [] r = "implication"       -> implication(s, p)
      [] r = "formula"           -> formula(s, p)

(***************************************************************************)
(* parse_ and the four entry points.  The outcome of a call is             *)
(*    [st |-> "ok", val |-> the result]  or  [st |-> "error", err |-> e],  *)
(* e being the QueryError thrown.                                          *)
(***************************************************************************)
SyntaxError == [kind |-> "syntax"]
Returned(v) == [st |-> "ok", val |-> v]
QueryError(e) == [st |-> "error", err |-> e]

\* (mutant: parse_ does not compare first with last)
FullMatch_Prefix(s, r) == r.st = "ok"
\* first == last && r, after phrase_parse has skipped the trailing white space
FullMatch(s, r) == r.st = "ok" /\ Skip(s, r.pos) = Len(s) + 1

\* parse_: r is what the rule made of the query string s
parse_(s, r) ==
    IF r.st = "throw" THEN QueryError(r.err)
    ELSE IF FullMatch(s, r) THEN Returned(r.val)
    ELSE QueryError(SyntaxError)

QueryParser_parse(s)          == parse_(s, rule("formula", s, 1))
QueryParser_parsePredicate(s) == parse_(s, rule("predicate", s, 1))
QueryParser_parseConstant(s)  == parse_(s, rule("constant", s, Skip(s, 1)))
QueryParser_parseRawAtom(s)   == parse_(s, rule("atomRaw", s, Skip(s, 1)))

(***************************************************************************)
(* The query strings the parser is run on.  A shape describes how a string *)
(* is built; Render spells it out.                                         *)
(***************************************************************************)
Join(a, b) == a \o b
RECURSIVE JoinAll(_)
JoinAll(ss) == IF ss = <<>> THEN <<>> ELSE Head(ss) \o JoinAll(Tail(ss))

\* u1 o1 u2 o2 u3: three operands p, q, r, each plain, negated or believed
UnaryPrefixes == {<<>>, <<"~">>, <<"B">>}
ConjunctionOps == {<<",">>, <<"&">>}
DisjunctionOps == {<<";">>, <<"|">>}
ImplicationOps == {<<"-", ">">>}
BinaryOps == ConjunctionOps \cup DisjunctionOps \cup ImplicationOps
PrecShapes == [kind : {"prec"}, u1 : UnaryPrefixes, o1 : BinaryOps,
               u2 : UnaryPrefixes, o2 : BinaryOps, u3 : UnaryPrefixes]

\* B[o1,...,on] p(x): an option is a value, or key=value
fred    == <<"f", "r", "e", "d">>
OptionValues == {[text |-> fred, vtype |-> "STRING"],
                 [text |-> <<"0", ".", "8">>, vtype |-> "DOUBLE"]}
OptionKeys == AgentKeys \cup ConfidenceKeys \cup {<<"f", "o", "o">>}
ShortOptions == [key : {<<>>}, val : OptionValues]
AllOptions == [key : {<<>>} \cup {<<k>> : k \in OptionKeys}, val : OptionValues]
FewOptions == ShortOptions \cup [key : {<<(<<"c">>)>>}, val : OptionValues]
OptionLists == {<<>>} \cup {<<a>> : a \in AllOptions}
                      \cup {<<a, b>> : a \in AllOptions, b \in AllOptions}
                      \cup {<<a, b, c>> : a \in FewOptions, b \in FewOptions, c \in FewOptions}
ModalShapes == [kind : {"modal"}, opts : OptionLists]

\* P[o1,...,on] p(x) and H[o1,...,on] p(x): an option is a number or a name,
\* alone or after one of the keys begin, since, end, until and foo
PastValues == {[text |-> <<"5">>, vtype |-> "DOUBLE", num |-> Finite(FALSE, 5, 0)],
               [text |-> <<"7", ".", "5">>, vtype |-> "DOUBLE", num |-> Finite(FALSE, 75, -1)],
               [text |-> fred, vtype |-> "STRING", num |-> NotANumber]}
PastKeys == BeginKeys \cup EndKeys \cup {<<"f", "o", "o">>}
PastOptions == [key : {<<>>} \cup {<<k>> : k \in PastKeys}, val : PastValues]
FewPastOptions == {o \in PastOptions : /\ o.val.vtype = "DOUBLE"
                                       /\ o.key \in {<<>>, <<(<<"b", "e", "g", "i", "n">>)>>,
                                                     <<(<<"u", "n", "t", "i", "l">>)>>}}
PastOptionLists == {<<>>} \cup {<<a>> : a \in PastOptions}
                          \cup {<<a, b>> : a \in PastOptions, b \in PastOptions}
                          \cup {<<a, b, c>> : a \in FewPastOptions, b \in FewPastOptions,
                                              c \in FewPastOptions}
PastShapes == [kind : {"past"}, sym : {"P", "H"}, opts : PastOptionLists]

\* ns:name, the name bare or in single quotes
IriPrefixes == RegisteredPrefixes \cup {<<"x">>, <<"O", "w", "l">>, <<"r", "2">>}
IriNames    == {<<"f", "o", "o">>, <<"F", "o", "o">>, <<"a", "_", "1">>, <<"X">>}
IriShapes   == [kind : {"iri"}, ns : IriPrefixes, name : IriNames, quoted : BOOLEAN]

RenderOption(o) ==
    IF o.key = <<>> THEN o.val.text ELSE o.key[1] \o <<"=">> \o o.val.text
RECURSIVE RenderOptionsFrom(_, _)
RenderOptionsFrom(opts, i) ==
    IF i > Len(opts) THEN <<>>
    ELSE (IF i > 1 THEN <<",">> ELSE <<>>) \o RenderOption(opts[i])
         \o RenderOptionsFrom(opts, i + 1)
RenderOptions(opts) ==
    IF opts = <<>> THEN <<>> ELSE <<"[">> \o RenderOptionsFrom(opts, 1) \o <<"]">>

Render(sh) ==
    CASE sh.kind = "prec"  -> JoinAll(<<sh.u1, <<"p">>, sh.o1, sh.u2, <<"q">>, sh.o2,
                                        sh.u3, <<"r">>>>)
      [] sh.kind = "modal" -> <<"B">> \o RenderOptions(sh.opts) \o <<" ", "p", "(", "x", ")">>
      [] sh.kind = "past"  -> <<sh.sym>> \o RenderOptions(sh.opts) \o <<" ", "p", "(", "x", ")">>
      [] sh.kind = "iri"   -> sh.ns \o <<":">>
                              \o (IF sh.quoted THEN <<"'">> \o sh.name \o <<"'">> ELSE sh.name)
      [] OTHER             -> sh.text

\* query strings given literally: those of the unit tests and their neighbours
Texts == {
    <<"p", ";", "q", ",", "r">>, <<"p", "-", ">", "q", "-", ">", "r">>,
    <<"p", ",", "q", "-", ">", "r", ";", "p">>, <<"B", "p", ";", "r">>,
    <<"p", ",", "q", "-", ">", "r", "-", ">", "p">>, <<"B", "p", "-", ">", "K", "p">>,
    <<"B", "p", "-", ">", "~", "p">>, <<"(", "p", ";", "q", ")", ",", "r">>,
    <<"p", ",", "(", "q", ";", "r", ")">>, <<"~", "(", "p", ",", "q", ")">>,
    <<"B", "(", "p", ";", "q", ")">>, <<"X", "1">>, <<"X">>, <<"I", "n", "f">>,
    <<"N", "a", "N">>, <<"p", "(", "x", ")">>, <<"p", ",", "q">>, <<"2">>, <<"1", ".", "5">>,
    <<"-", "3">>, <<"p", " ", "q">>, <<"f", "o", "o", ")">>, <<"p", "(", "x", ")", " ", "y">>,
    <<" ", "p", " ">>, <<>>, <<"f", "o", "o">>, <<"\"", "a", "b", "\"">>,
    <<"'", "a", " ", "b", "'">>, <<"p", "(", "X", ",", "a", ")">>,
    <<"p", "(", "f", "(", "X", ")", ",", "3", ")">>, <<"p", "(">>,
    <<"n", "u", "l", "l", "a", "r", "y">>,
    <<"q", " ", " ", "(", " ", "3", " ", ",", " ", "\"", "x", "\"", " ", ")">>,
    <<"p", "(", "X", ",", "[", "a", ",", "b", "]", ")">>, <<"x", "1">>,
    <<"p", "(", "x", ")", ",">>, <<"~">>, <<"(", "p">>, <<"1", ".", "5", "x">>, <<".", "5">>,
    <<"5", ".">>, <<"P", "[", ",", "1", "0", ".", "0", "]", " ", "p", "(", "x", ")">>,
    <<"P", "[", "1", "0", ",", "]", " ", "p", "(", "x", ")">>,
    <<"P", "[", "5", ".", "0", ",", "1", "0", ".", "0", "]", " ", "p", "(", "x", ")">>,
    <<"P", "[", "u", "n", "t", "i", "l", "=", "1", "0", ".", "0", "]", " ", "p", "(", "x", ")">>,
    <<"H", "[", "1", "0", "]", " ", "p", "(", "x", ")">>, <<"P", " ", "p", "(", "x", ")">>,
    <<"H", "[", ",", "1", "0", ".", "0", "]", " ", "p", "(", "x", ")">>,
    <<"P", "[", "b", "e", "g", "i", "n", "=", "5", ".", "0", "]", " ", "p", "(", "x", ")">>,
    <<"P", "[", "1", ",", "2", ",", "3", "]", " ", "p", "(", "x", ")">>,
    <<"K", "[", "f", "r", "e", "d", "]", " ", "p", "(", "x", ")">>,
    <<"K", "[", "f", "r", "e", "d", ",", "f", "r", "e", "d", "]", " ", "p", "(", "x", ")">>,
    <<"K", "[", "s", "e", "l", "f", "]", " ", "p", "(", "x", ")">>,
    <<"B", "[", "s", "e", "l", "f", "]", " ", "p", "(", "x", ")">>,
    <<"'", "o", "w", "l", "'">>, <<"o", "w", "l">>, <<"o", "w", "l", ":">>,
    <<":", "f", "o", "o">>, <<"o", "w", "l", ":", "f", "o", "o", ":", "b", "a", "r">>,
    <<"o", "w", "l", ":", " ", "f", "o", "o">>,
    <<"o", "w", "l", ":", "f", "o", "o", "(", "x", ")">>,
    <<"p", "(", "o", "w", "l", ":", "f", "o", "o", ")">>,
    <<"p", "(", "x", ":", "f", "o", "o", ")">>,
    <<"p", ",", "q", "&", "r", ",", "s">>, <<"p", "|", "q", ";", "r", "|", "s">>,
    <<"(", "p", "-", ">", "q", ")", "-", ">", "r">> }
TextShapes == [kind : {"text"}, text : Texts]

Shapes == PrecShapes \cup ModalShapes \cup PastShapes \cup IriShapes \cup TextShapes

(***************************************************************************)
(* SpecParser: one query string, handed to one of the four entry points.   *)
(***************************************************************************)
ParserInit ==
    /\ shape \in Shapes
    /\ input = Render(shape)
    /\ entry = "none"
    /\ result = NoResult
    /\ UnifierIdle /\ MergeIdle /\ QueryIdle /\ MgrIdle /\ DataIdle /\ IndicatorIdle /\ ConfigIdle /\ CursorIdle

\* QueryParser::parse
Parse ==
    /\ entry = "none"
    /\ entry' = "parse"
    /\ result' = QueryParser_parse(input)
    /\ UNCHANGED <<input, shape, unifierVars, mergeVars, queryVars, mgrVars, dataVars, indicatorVars, configVars, cursorVars>>

\* QueryParser::parsePredicate
ParsePredicate ==
    /\ entry = "none"
    /\ entry' = "parsePredicate"
    /\ result' = QueryParser_parsePredicate(input)
    /\ UNCHANGED <<input, shape, unifierVars, mergeVars, queryVars, mgrVars, dataVars, indicatorVars, configVars, cursorVars>>

\* QueryParser::parseConstant
ParseConstant ==
    /\ entry = "none"
    /\ entry' = "parseConstant"
    /\ result' = QueryParser_parseConstant(input)
    /\ UNCHANGED <<input, shape, unifierVars, mergeVars, queryVars, mgrVars, dataVars, indicatorVars, configVars, cursorVars>>

\* QueryParser::parseRawAtom
ParseRawAtom ==
    /\ entry = "none"
    /\ entry' = "parseRawAtom"
    /\ result' = QueryParser_parseRawAtom(input)
    /\ UNCHANGED <<input, shape, unifierVars, mergeVars, queryVars, mgrVars, dataVars, indicatorVars, configVars, cursorVars>>

ParserNext == Parse \/ ParsePredicate \/ ParseConstant \/ ParseRawAtom
SpecParser == ParserInit /\ [][ParserNext]_vars

(***************************************************************************)
(* C4: operator precedence.                                                *)
(***************************************************************************)
Atomic(c) == PredicateFormula(Predicate(<<c>>, <<>>))
BelievedBySelf(f) == ModalFormula(BeliefModality(<<>>, <<>>), f)
\* the operand a prefix and a letter stand for
Operand(pre, c) ==
    CASE pre = <<>>     -> Atomic(c)
      [] pre = <<"~">>  -> Negation(Atomic(c))
      [] OTHER          -> BelievedBySelf(Atomic(c))
\* the connective an operator stands for, over the operands fs
Connect(op, fs) ==
    IF op \in ConjunctionOps THEN Conjunction(fs)
    ELSE IF op \in DisjunctionOps THEN Disjunction(fs)
    ELSE Implication(fs[1], fs[2])
\* a binds tighter than b
Tighter(a, b) ==
    \/ a \in ConjunctionOps /\ b \notin ConjunctionOps
    \/ a \in DisjunctionOps /\ b \in ImplicationOps
\* what u1 o1 u2 o2 u3 denotes under the stated precedence and associativity
Expected(sh) ==
    LET a == Operand(sh.u1, "p")
        b == Operand(sh.u2, "q")
        c == Operand(sh.u3, "r")
    IN IF Tighter(sh.o1, sh.o2) THEN Connect(sh.o2, <<Connect(sh.o1, <<a, b>>), c>>)
       ELSE IF Tighter(sh.o2, sh.o1) THEN Connect(sh.o1, <<a, Connect(sh.o2, <<b, c>>)>>)
       ELSE IF sh.o1 \in ImplicationOps THEN Implication(a, Implication(b, c))
       ELSE Connect(sh.o1, <<a, b, c>>)

\* C4: unary operators bind tighter than ','/'&', these tighter than ';'/'|',
\* these tighter than '->', and '->' associates to the right: every string
\* u1 o1 u2 o2 u3 parses to the formula this precedence gives it, and the five
\* strings the claim names parse to the formulas it names.
C4_Precedence ==
    entry = "parse" =>
        /\ shape.kind = "prec" => result = Returned(Expected(shape))
        /\ input = <<"p", ",", "q", ";", "r">> =>
               result = Returned(Disjunction(<<Conjunction(<<Atomic("p"), Atomic("q")>>),
                                               Atomic("r")>>))
        /\ input = <<"p", ";", "q", ",", "r">> =>
               result = Returned(Disjunction(<<Atomic("p"),
                                               Conjunction(<<Atomic("q"), Atomic("r")>>)>>))
        /\ input = <<"p", "-", ">", "q", "-", ">", "r">> =>
               result = Returned(Implication(Atomic("p"),
                                             Implication(Atomic("q"), Atomic("r"))))
        /\ input = <<"p", ",", "q", "-", ">", "r", ";", "p">> =>
               result = Returned(Implication(Conjunction(<<Atomic("p"), Atomic("q")>>),
                                             Disjunction(<<Atomic("r"), Atomic("p")>>)))
        /\ input = <<"B", "p", ";", "r">> =>
               result = Returned(Disjunction(<<BelievedBySelf(Atomic("p")), Atomic("r")>>))

\* "p;Bq,~r" has been parsed to OR(p, AND(Modal(B,q), NOT r))
C4_Witness ==
    /\ entry = "parse"
    /\ shape.kind = "prec"
    /\ input = <<"p", ";", "B", "q", ",", "~", "r">>
    /\ result.st = "ok"
    /\ result.val.ftype = "DISJUNCTION"
    /\ Len(result.val.formulae) = 2
    /\ result.val.formulae[2].ftype = "CONJUNCTION"
    /\ result.val.formulae[2].formulae[1].ftype = "MODAL"
    /\ result.val.formulae[2].formulae[2].ftype = "NEGATION"

(***************************************************************************)
(* C5: full-input match.                                                   *)
(***************************************************************************)
\* what the rule of the entry point e makes of the query string s
RuleOutcome(e, s) ==
    CASE e = "parse"          -> rule("formula", s, 1)
      [] e = "parsePredicate" -> rule("predicate", s, 1)
      [] e = "parseConstant"  -> rule("constant", s, Skip(s, 1))
      [] OTHER                -> rule("atomRaw", s, Skip(s, 1))
\* the whole of s is a variable, a compound, a number
IsVariable(s) == FullMatch(s, rule("variable", s, Skip(s, 1)))
IsCompound(s) == FullMatch(s, rule("compound", s, Skip(s, 1)))
IsNumber(s)   == FullMatch(s, rule("number", s, Skip(s, 1)))
pCommaQ == <<"p", ",", "q">>

\* C5: an entry point returns a result only if the whole input matches its
\* rule and raises QueryError otherwise; parseConstant rejects every variable,
\* every compound and "p,q"; parsePredicate rejects every variable, every
\* number and "p,q".
C5_FullInputMatch ==
    entry # "none" =>
        /\ result.st \in {"ok", "error"}
        /\ result.st = "ok" => FullMatch(input, RuleOutcome(entry, input))
        /\ (entry = "parseConstant"
                /\ (IsVariable(input) \/ IsCompound(input) \/ input = pCommaQ))
               => result.st = "error"
        /\ (entry = "parsePredicate"
                /\ (IsVariable(input) \/ IsNumber(input) \/ input = pCommaQ))
               => result.st = "error"

(***************************************************************************)
(* C6: the options of B.                                                   *)
(***************************************************************************)
HasKey(o, names) == o.key # <<>> /\ o.key[1] \in names
AssignsAgent(o) ==
    o.val.vtype = "STRING" /\ (o.key = <<>> \/ HasKey(o, AgentKeys))
AssignsConfidence(o) ==
    o.val.vtype = "DOUBLE" /\ (o.key = <<>> \/ HasKey(o, ConfidenceKeys))
UnknownKey(o) == o.key # <<>> /\ ~HasKey(o, AgentKeys \cup ConfidenceKeys)
WrongType(o) ==
    \/ HasKey(o, AgentKeys) /\ o.val.vtype # "STRING"
    \/ HasKey(o, ConfidenceKeys) /\ o.val.vtype # "DOUBLE"
Count(opts, Is(_)) == Cardinality({i \in DOMAIN opts : Is(opts[i])})
\* the option lists the claim says are refused
Refused(opts) ==
    \/ Count(opts, AssignsAgent) >= 2
    \/ Count(opts, AssignsConfidence) >= 2
    \/ Count(opts, UnknownKey) >= 1
    \/ Count(opts, WrongType) >= 1
IsOptionError(r) == r.st = "error" /\ r.err.kind = "option"

\* C6: parsing B[options] p(x) raises the unrecognized-option QueryError
\* whenever the options assign the agent or the confidence twice, use an
\* unknown key, or give a key a value of the wrong type; B[foo=fred] p(x) and
\* B[0.8,0.8] p(x) both raise it.
C6_BeliefOptions ==
    entry = "parse" =>
        /\ (shape.kind = "modal" /\ Refused(shape.opts)) => IsOptionError(result)
        /\ input = <<"B", "[", "f", "o", "o", "=", "f", "r", "e", "d", "]", " ", "p", "(", "x", ")">> => IsOptionError(result)
        /\ input = <<"B", "[", "0", ".", "8", ",", "0", ".", "8", "]", " ", "p", "(", "x", ")">> => IsOptionError(result)

\* B[fred,a=fred] p(x), the agent given by position and again by key, has
\* been refused for its second option
C6_Witness ==
    /\ entry = "parse"
    /\ shape.kind = "modal"
    /\ input = <<"B", "[", "f", "r", "e", "d", ",", "a", "=", "f", "r", "e", "d", "]", " ", "p", "(", "x", ")">>
    /\ Count(shape.opts, AssignsAgent) = 2
    /\ IsOptionError(result)
    /\ result.err.option = Predicate(equalFunctor, <<StringTerm(<<"a">>), StringTerm(fred)>>)

(***************************************************************************)
(* C7: empty positional slots in the options of P and H.                   *)
(***************************************************************************)
IsOncePast(r, f) ==
    /\ r.st = "ok"
    /\ r.val.ftype = "MODAL"
    /\ r.val.op.sym = "P"
    /\ r.val.arg = f
pOfX == PredicateFormula(Predicate(<<"p">>, <<StringTerm(<<"x">>)>>))

\* C7: "P[,10.0] p(x)" and "P[10,] p(x)" parse to P over p(x), the interval
\* having only its end, respectively only its begin.
C7_EmptySlots ==
    entry = "parse" =>
        /\ input = <<"P", "[", ",", "1", "0", ".", "0", "]", " ", "p", "(", "x", ")">> =>
               /\ IsOncePast(result, pOfX)
               /\ result.val.op.begin = <<>>
               /\ result.val.op.end # <<>>
        /\ input = <<"P", "[", "1", "0", ",", "]", " ", "p", "(", "x", ")">> =>
               /\ IsOncePast(result, pOfX)
               /\ result.val.op.begin # <<>>
               /\ result.val.op.end = <<>>

(***************************************************************************)
(* C8: IRI expansion.                                                      *)
(***************************************************************************)
\* what ns:name denotes
ExpandedIRI(sh) == PrefixExpansion(sh.ns) \o sh.name
\* what an entry point returns for an atom that denotes the string v
AtomResult(e, v) ==
    CASE e = "parse"          -> Returned(PredicateFormula(Predicate(v, <<>>)))
      [] e = "parsePredicate" -> Returned(Predicate(v, <<>>))
      [] e = "parseConstant"  -> Returned(StringTerm(v))
      [] OTHER                -> Returned(v)
Characters(s) == {s[i] : i \in DOMAIN s}

\* C8: an atom ns:name, the name bare or in single quotes, parses to the
\* registered expansion of ns followed by name when ns is registered and
\* raises the QueryError that names the name and the prefix when it is not;
\* on an input without a colon the iri rule, whose action alone calls the
\* prefix registry, matches at no position.
C8_IriExpansion ==
    entry # "none" =>
        /\ shape.kind = "iri" =>
               result = IF shape.ns \in RegisteredPrefixes THEN AtomResult(entry, ExpandedIRI(shape))
                        ELSE QueryError(IriError(shape.name, shape.ns))
        /\ (entry = "parsePredicate" /\ input = <<"p", "(", "o", "w", "l", ":", "f", "o", "o", ")">>) =>
               result = Returned(Predicate(<<"p">>,
                            <<StringTerm(PrefixExpansion(<<"o", "w", "l">>) \o <<"f", "o", "o">>)>>))
        /\ (entry = "parsePredicate" /\ input = <<"p", "(", "x", ":", "f", "o", "o", ")">>) =>
               result = QueryError(IriError(<<"f", "o", "o">>, <<"x">>))
        /\ ":" \notin Characters(input) =>
               /\ \A p \in 1..(Len(input) + 1) : rule("iri", input, p).st = "fail"
               /\ result.st = "error" => result.err.kind # "iri"

\* owl:'Foo' has been expanded by parseRawAtom
C8_Witness ==
    /\ entry = "parseRawAtom"
    /\ shape.kind = "iri"
    /\ shape.quoted
    /\ shape.ns \in RegisteredPrefixes
    /\ input = <<"o", "w", "l", ":", "'", "F", "o", "o", "'">>
    /\ result = Returned(<<"h", "/", "o", "w", "l", "#", "F", "o", "o">>)

\* x:foo has been refused by parseConstant, x being no registered prefix
C8_WitnessUnregistered ==
    /\ entry = "parseConstant"
    /\ shape.kind = "iri"
    /\ shape.ns \notin RegisteredPrefixes
    /\ result = QueryError(IriError(shape.name, shape.ns))

(***************************************************************************)
(* C27: flattening of connectives.                                         *)
(***************************************************************************)
\* r is the connective of type ftype over exactly n operands, none of which
\* is a connective of that type
IsFlat(r, ftype, n) ==
    /\ r.st = "ok"
    /\ r.val.ftype = ftype
    /\ Len(r.val.formulae) = n
    /\ \A i \in 1..n : r.val.formulae[i].ftype # ftype

RECURSIVE BinaryImplications(_)
\* every implication in the formula f has exactly two operands
BinaryImplications(f) ==
    CASE f.ftype \in {"CONJUNCTION", "DISJUNCTION"} ->
            \A i \in 1..Len(f.formulae) : BinaryImplications(f.formulae[i])
      [] f.ftype = "IMPLICATION" ->
            /\ Len(f.formulae) = 2
            /\ \A i \in 1..Len(f.formulae) : BinaryImplications(f.formulae[i])
      [] f.ftype \in {"NEGATION", "MODAL"} -> BinaryImplications(f.arg)
      [] OTHER -> TRUE

\* C27: operands joined only by ',' and '&' parse to one conjunction of all
\* of them, and operands joined only by ';' and '|' to one disjunction of
\* all of them (two, three and four operands); a bracketed operand of the
\* other kind stays one operand ("p,(q;r)" is a conjunction of p and the
\* disjunction of q and r); and every implication of a parsed formula has
\* exactly two operands.
C27_Flattening ==
    entry = "parse" =>
        /\ (shape.kind = "prec" /\ shape.o1 \in ConjunctionOps /\ shape.o2 \in ConjunctionOps)
               => IsFlat(result, "CONJUNCTION", 3)
        /\ (shape.kind = "prec" /\ shape.o1 \in DisjunctionOps /\ shape.o2 \in DisjunctionOps)
               => IsFlat(result, "DISJUNCTION", 3)
        /\ input = <<"p", ",", "q">> => IsFlat(result, "CONJUNCTION", 2)
        /\ input = <<"p", ",", "q", "&", "r", ",", "s">> => IsFlat(result, "CONJUNCTION", 4)
        /\ input = <<"p", "|", "q", ";", "r", "|", "s">> => IsFlat(result, "DISJUNCTION", 4)
        /\ input = <<"p", ",", "(", "q", ";", "r", ")">> =>
               /\ IsFlat(result, "CONJUNCTION", 2)
               /\ result.val.formulae[1] = Atomic("p")
               /\ result.val.formulae[2] = Disjunction(<<Atomic("q"), Atomic("r")>>)
        /\ input = <<"(", "p", ";", "q", ")", ",", "r">> =>
               /\ IsFlat(result, "CONJUNCTION", 2)
               /\ result.val.formulae[1] = Disjunction(<<Atomic("p"), Atomic("q")>>)
               /\ result.val.formulae[2] = Atomic("r")
        /\ input = <<"p", "-", ">", "q", "-", ">", "r">> =>
               result = Returned(Implication(Atomic("p"), Implication(Atomic("q"), Atomic("r"))))
        /\ input = <<"(", "p", "-", ">", "q", ")", "-", ">", "r">> =>
               result = Returned(Implication(Implication(Atomic("p"), Atomic("q")), Atomic("r")))
        /\ result.st = "ok" => BinaryImplications(result.val)

\* "p,q&r" has been parsed to the conjunction of p, q and r
C27_Witness ==
    /\ entry = "parse"
    /\ shape.kind = "prec"
    /\ input = <<"p", ",", "q", "&", "r">>
    /\ result = Returned(Conjunction(<<Atomic("p"), Atomic("q"), Atomic("r")>>))

(***************************************************************************)
(* C28: the options of P and H.                                            *)
(***************************************************************************)
Refusal == <<"refused">>

RECURSIVE StatedIntervalFrom(_, _, _, _, _)
\* what the options from the i-th on give under the stated rules, begin and
\* end being the sides set so far and npos the positional numbers seen:
\* the pair of the optional begin and end, or Refusal
StatedIntervalFrom(opts, i, begin, end, npos) ==
    IF i > Len(opts) THEN <<begin, end>>
    ELSE LET o == opts[i] IN
         IF o.val.vtype # "DOUBLE" THEN Refusal
         ELSE IF (o.key = <<>> /\ npos = 0) \/ HasKey(o, BeginKeys)
              THEN IF begin # <<>> THEN Refusal
                   ELSE StatedIntervalFrom(opts, i + 1, <<o.val.num>>, end,
                                           IF o.key = <<>> THEN npos + 1 ELSE npos)
         ELSE IF (o.key = <<>> /\ npos = 1) \/ HasKey(o, EndKeys)
              THEN IF end # <<>> THEN Refusal
                   ELSE StatedIntervalFrom(opts, i + 1, begin, <<o.val.num>>,
                                           IF o.key = <<>> THEN npos + 1 ELSE npos)
         ELSE Refusal
StatedInterval(opts) == StatedIntervalFrom(opts, 1, <<>>, <<>>, 0)

\* r is the operator sym over p(x), with the given optional begin and end
IsPast(r, sym, sides) ==
    /\ r.st = "ok"
    /\ r.val.ftype = "MODAL"
    /\ r.val.arg = pOfX
    /\ r.val.op = PastModality(sym, sides[1], sides[2])

\* C28: in the options of P and H the first number without a key sets begin
\* and the second sets end, the keys begin and since set begin and the keys
\* end and until set end; the operator has an interval exactly if a side was
\* set; and the option error is raised for an option that would set a side
\* that is already set, for a value that is not a number, and for any other
\* key.
C28_TimeIntervalOptions ==
    (entry = "parse" /\ shape.kind = "past") =>
        IF StatedInterval(shape.opts) = Refusal
        THEN IsOptionError(result)
        ELSE IsPast(result, shape.sym, StatedInterval(shape.opts))

(***************************************************************************)
(* ReasonerManager.  A reasoner instance is                                *)
(*    [id, reasonerID, factory, configured]                                *)
(* id telling instances (shared_ptr targets) apart and configured what its *)
(* loadConfiguration returned ("none" if it was never called).  A factory  *)
(* is <<>> (null) or <<[kind, name]>>.                                     *)
(***************************************************************************)
MaxReasoners == 2

\* the factories the constructor registers
reasonerFactories == {"Mongolog", "Prolog", "ESG", "SWRL"}
TypedReasonerFactory(typeName) == [kind |-> "type", name |-> typeName]
PluginFactory(path)            == [kind |-> "lib", name |-> path]

\* ReasonerPlugin after loadDLL has been called on it opens times; it is
\* loaded iff both symbols were resolved
ReasonerPlugin(loaded, opens) == [isLoaded |-> loaded, opens |-> opens]

\* (mutant: a cached plugin that is not loaded is opened again)
loadReasonerPlugin_Retry(loaded, path, dll) ==
    IF path \notin DOMAIN loaded \/ ~loaded[path].isLoaded
    THEN [plugins |-> [q \in DOMAIN loaded \cup {path} |->
                          IF q # path THEN loaded[q]
                          ELSE ReasonerPlugin(dll, IF path \in DOMAIN loaded
                                                   THEN loaded[path].opens + 1 ELSE 1)],
          factory |-> IF dll THEN <<PluginFactory(path)>> ELSE <<>>]
    ELSE [plugins |-> loaded, factory |-> <<PluginFactory(path)>>]

\* loadReasonerPlugin: the plugin map afterwards and the plugin returned, dll
\* being what loadDLL returns if it is called
loadReasonerPlugin(loaded, path, dll) ==
    IF path \notin DOMAIN loaded
    THEN [plugins |-> [q \in DOMAIN loaded \cup {path} |->
                          IF q = path THEN ReasonerPlugin(dll, 1) ELSE loaded[q]],
          factory |-> IF dll THEN <<PluginFactory(path)>> ELSE <<>>]
    ELSE [plugins |-> loaded,
          factory |-> IF loaded[path].isLoaded THEN <<PluginFactory(path)>> ELSE <<>>]

\* the factory registered for the type key, if there is one
FactoryOfType(config) ==
    IF config.type # <<>> /\ config.type[1] \in reasonerFactories
    THEN <<TypedReasonerFactory(config.type[1])>> ELSE <<>>

\* (mutant: a plugin that cannot be loaded falls back to the type key)
ResolveFactory_Fallback(config, loaded, dll) ==
    LET viaLib == IF config.lib # <<>> THEN loadReasonerPlugin(loaded, config.lib[1], dll)
                  ELSE [plugins |-> loaded, factory |-> <<>>]
    IN IF viaLib.factory # <<>> THEN viaLib
       ELSE [plugins |-> viaLib.plugins, factory |-> FactoryOfType(config)]
\* loadReasoner, "get a reasoner factory"
ResolveFactory(config, loaded, dll) ==
    IF config.lib # <<>> THEN loadReasonerPlugin(loaded, config.lib[1], dll)
    ELSE [plugins |-> loaded, factory |-> FactoryOfType(config)]

\* std::to_string of a non-negative number: its decimal digits
RECURSIVE to_string(_)
to_string(n) ==
    LET digit == <<"0", "1", "2", "3", "4", "5", "6", "7", "8", "9">>[(n % 10) + 1] IN
    IF n < 10 THEN <<digit>> ELSE to_string(n \div 10) \o <<digit>>

\* (mutant: the factory's name and the index are used whatever the config says)
ReasonerID_Generated(config, factory, index) == <<factory.name>> \o to_string(index)
\* the reasoner id: the name property, or the factory's name followed by the
\* index; a string as the sequence of its parts
ReasonerID(config, factory, index) ==
    IF config.name # <<>> THEN <<config.name[1]>>
    ELSE <<factory.name>> \o to_string(index)

\* (mutant: the index is increased only when the reasoner was added)
IncreaseIndex_IfAdded(index, configured) == IF configured THEN index + 1 ELSE index
\* loadReasoner, "increase reasonerIndex_"
IncreaseIndex(index, configured) == index + 1

\* (mutant: the reasoner is added whatever loadConfiguration returned)
KeepReasoner_Always(configured) == TRUE
\* loadReasoner: addReasoner is called iff loadConfiguration returned true
KeepReasoner(configured) == configured

\* reasonerPool_.remove(reasoner)
RECURSIVE Remove(_, _)
Remove(list, x) ==
    IF list = <<>> THEN <<>>
    ELSE (IF Head(list) = x THEN <<>> ELSE <<Head(list)>>) \o Remove(Tail(list), x)

\* (mutant: the reasoners are put at the front of the list returned)
RECURSIVE CurrentFrom_Front(_, _, _)
CurrentFrom_Front(list, answers, i) ==
    IF i > Len(list) THEN <<>>
    ELSE CurrentFrom_Front(list, answers, i + 1) \o (IF answers[i] THEN <<list[i]>> ELSE <<>>)
\* the members of the list from the i-th on whose isCurrentPredicate answers true
RECURSIVE CurrentFrom(_, _, _)
CurrentFrom(list, answers, i) ==
    IF i > Len(list) THEN <<>>
    ELSE (IF answers[i] THEN <<list[i]>> ELSE <<>>) \o CurrentFrom(list, answers, i + 1)

PluginPaths   == {"a.so", "b.so"}
TypeNames     == {"Prolog", "Datalog"}
ReasonerNames == {"r1"}
Optional(S)   == {<<>>} \cup {<<x>> : x \in S}
Configs       == [lib : Optional(PluginPaths), type : Optional(TypeNames),
                  name : Optional(ReasonerNames)]
Indicators    == {"p/1", "q/2"}

MgrInit ==
    /\ pool = <<>>
    /\ plugins = EmptyMapping
    /\ reasonerIndex = 0
    /\ created = 0
    /\ mlog = NoCall
    /\ UnifierIdle /\ MergeIdle /\ QueryIdle /\ ParserIdle /\ DataIdle /\ IndicatorIdle /\ ConfigIdle /\ CursorIdle

\* what loadDLL can return in this call: it is called only for a path that
\* is not in loadedPlugins_
DllOutcomes(config) ==
    IF config.lib # <<>> /\ config.lib[1] \notin DOMAIN plugins THEN BOOLEAN ELSE {FALSE}
\* what loadConfiguration can return in this call: it is called only when a
\* factory was resolved
ConfigurationOutcomes(config, dll) ==
    IF ResolveFactory(config, plugins, dll).factory # <<>> THEN BOOLEAN ELSE {FALSE}

\* ReasonerManager::loadReasoner; dll and configured are what loadDLL and
\* loadConfiguration return
LoadReasoner(config, dll, configured) ==
    LET res == ResolveFactory(config, plugins, dll)
        reasoner == [id |-> created + 1,
                     reasonerID |-> ReasonerID(config, res.factory[1], reasonerIndex),
                     factory |-> res.factory[1],
                     configured |-> IF configured THEN "true" ELSE "false"]
    IN /\ plugins' = res.plugins
       /\ IF res.factory = <<>>
          THEN /\ mlog' = [op |-> "loadReasoner", ret |-> "ReasonerError", config |-> config,
                           before |-> pool]
               /\ UNCHANGED <<pool, reasonerIndex, created>>
          ELSE /\ created < MaxReasoners
               /\ pool' = IF KeepReasoner(configured) THEN Append(pool, reasoner) ELSE pool
               /\ reasonerIndex' = IncreaseIndex(reasonerIndex, configured)
               /\ created' = created + 1
               /\ mlog' = [op |-> "loadReasoner", ret |-> "ok", config |-> config,
                           before |-> pool, reasoner |-> reasoner,
                           index |-> reasonerIndex]
       /\ UNCHANGED <<unifierVars, mergeVars, queryVars, parserVars, dataVars, indicatorVars, configVars, cursorVars>>

\* ReasonerManager::addReasoner, with a reasoner the caller has made
AddReasoner ==
    /\ created < MaxReasoners
    /\ pool' = Append(pool, [id |-> created + 1, reasonerID |-> <<"own">>,
                             factory |-> [kind |-> "none", name |-> "none"],
                             configured |-> "none"])
    /\ created' = created + 1
    /\ mlog' = [op |-> "addReasoner"]
    /\ UNCHANGED <<plugins, reasonerIndex>>
    /\ UNCHANGED <<unifierVars, mergeVars, queryVars, parserVars, dataVars, indicatorVars, configVars, cursorVars>>

\* ReasonerManager::removeReasoner
RemoveReasoner(i) ==
    /\ pool' = Remove(pool, pool[i])
    /\ mlog' = [op |-> "removeReasoner"]
    /\ UNCHANGED <<plugins, reasonerIndex, created>>
    /\ UNCHANGED <<unifierVars, mergeVars, queryVars, parserVars, dataVars, indicatorVars, configVars, cursorVars>>

\* ReasonerManager::getReasonerForPredicate; answers[i] is what the i-th
\* reasoner of the pool answers to isCurrentPredicate(indicator)
GetReasonerForPredicate(indicator, answers) ==
    /\ mlog' = [op |-> "getReasonerForPredicate", indicator |-> indicator,
                answers |-> answers, out |-> CurrentFrom(pool, answers, 1)]
    /\ UNCHANGED <<pool, plugins, reasonerIndex, created>>
    /\ UNCHANGED <<unifierVars, mergeVars, queryVars, parserVars, dataVars, indicatorVars, configVars, cursorVars>>

MgrNext ==
    \/ \E config \in Configs : \E dll \in DllOutcomes(config) :
           \E configured \in ConfigurationOutcomes(config, dll) :
               LoadReasoner(config, dll, configured)
    \/ AddReasoner
    \/ \E i \in DOMAIN pool : RemoveReasoner(i)
    \/ \E indicator \in Indicators : \E answers \in [DOMAIN pool -> BOOLEAN] :
           GetReasonerForPredicate(indicator, answers)
SpecMgr == MgrInit /\ [][MgrNext]_vars

(***************************************************************************)
(* C9, C10: loading a reasoner.                                            *)
(***************************************************************************)
\* the plugin at the lib key of c is loaded, the type key of c is registered
PluginLoaded(c)   == c.lib # <<>> /\ c.lib[1] \in DOMAIN plugins /\ plugins[c.lib[1]].isLoaded
TypeRegistered(c) == c.type # <<>> /\ c.type[1] \in reasonerFactories
InPool(r)         == \E i \in DOMAIN pool : pool[i] = r

\* C9: loadReasoner takes its factory from the plugin at lib whenever the
\* config has a lib key, and from the factory registered for type only when
\* lib is absent; it raises ReasonerError exactly when no factory is resolved
\* (the plugin is not loaded, the type is not registered, or both keys are
\* missing), and then the pool is what it was before the call.
C9_FactoryResolution ==
    mlog.op = "loadReasoner" =>
        LET c == mlog.config IN
        /\ mlog.ret \in {"ok", "ReasonerError"}
        /\ mlog.ret = "ok" <=> (IF c.lib # <<>> THEN PluginLoaded(c) ELSE TypeRegistered(c))
        /\ mlog.ret = "ok" =>
               mlog.reasoner.factory = IF c.lib # <<>> THEN PluginFactory(c.lib[1])
                                       ELSE TypedReasonerFactory(c.type[1])
        /\ mlog.ret = "ReasonerError" => pool = mlog.before

\* a config with a lib that cannot be loaded and a registered type has been
\* refused, and the pool, which holds a reasoner, is as before
C9_Witness ==
    /\ mlog.op = "loadReasoner"
    /\ mlog.ret = "ReasonerError"
    /\ mlog.config.lib # <<>>
    /\ TypeRegistered(mlog.config)
    /\ ~PluginLoaded(mlog.config)
    /\ pool # <<>>
    /\ pool = mlog.before

\* C10: when loadReasoner has returned normally, the instance it created is
\* in the pool iff its loadConfiguration returned true; ReasonerError is
\* raised only when no factory was resolved, never for a failed
\* loadConfiguration; no reasoner whose loadConfiguration failed is in the
\* pool or in what getReasonerForPredicate returns.
C10_PoolIffConfigured ==
    /\ (mlog.op = "loadReasoner" /\ mlog.ret = "ok") =>
           (InPool(mlog.reasoner) <=> mlog.reasoner.configured = "true")
    /\ (mlog.op = "loadReasoner" /\ mlog.ret = "ReasonerError") =>
           ~PluginLoaded(mlog.config)
           /\ (mlog.config.lib = <<>> => ~TypeRegistered(mlog.config))
    /\ \A i \in DOMAIN pool : pool[i].configured # "false"
    /\ mlog.op = "getReasonerForPredicate" =>
           \A i \in DOMAIN mlog.out : InPool(mlog.out[i]) /\ mlog.out[i].configured # "false"

\* loadReasoner has returned normally for a reasoner whose loadConfiguration
\* failed: the reasoner is not in the pool, which holds an earlier one
C10_Witness ==
    /\ mlog.op = "loadReasoner"
    /\ mlog.ret = "ok"
    /\ mlog.reasoner.configured = "false"
    /\ ~InPool(mlog.reasoner)
    /\ pool # <<>>
    /\ pool = mlog.before

(***************************************************************************)
(* C11, C12: the reasoner id and the index behind it.                      *)
(***************************************************************************)
\* a load that resolved a factory has returned
Loaded == mlog.op = "loadReasoner" /\ mlog.ret = "ok"

\* C11: the id of a newly created reasoner is the name of the config
\* whenever the config has a name, and otherwise the name of the resolved
\* factory followed by the decimal digits (no sign, no leading zero) of the
\* value the index had when loadReasoner was called.
C11_ReasonerID ==
    Loaded =>
        LET id == mlog.reasoner.reasonerID IN
        IF mlog.config.name # <<>> THEN id = <<mlog.config.name[1]>>
        ELSE /\ Len(id) >= 2
             /\ id[1] = mlog.reasoner.factory.name
             /\ \A k \in 2..Len(id) : id[k] \in Digit
             /\ Len(id) > 2 => id[2] # "0"
             /\ DigitsValue(id, 2, Len(id) + 1) = mlog.index

\* the second reasoner loaded, from a config without a name, is called after
\* its factory and the index 1
C11_Witness ==
    /\ Loaded
    /\ mlog.config.name = <<>>
    /\ mlog.index = 1
    /\ mlog.reasoner.reasonerID = <<mlog.reasoner.factory.name, "1">>

\* C12: the index starts at 0 and never decreases; a step changes it iff it
\* is a loadReasoner that resolved a factory, and then by exactly one,
\* whatever loadConfiguration returned.
C12_IndexMonotone ==
    /\ reasonerIndex = 0
    /\ [][/\ reasonerIndex' >= reasonerIndex
          /\ reasonerIndex' = IF mlog'.op = "loadReasoner" /\ mlog'.ret = "ok"
                              THEN reasonerIndex + 1 ELSE reasonerIndex]_vars

\* two loads have resolved a factory, the last one's loadConfiguration
\* failed, and the index is 2
C12_Witness ==
    /\ Loaded
    /\ mlog.reasoner.configured = "false"
    /\ mlog.index = 1
    /\ reasonerIndex = 2

(***************************************************************************)
(* C13: getReasonerForPredicate.                                           *)
(***************************************************************************)
\* out lists, in the order of the list, exactly the members of list at the
\* positions where answers is true
SelectsInOrder(out, list, answers) ==
    \E f \in [DOMAIN out -> DOMAIN list] :
        /\ \A j, k \in DOMAIN out : j < k => f[j] < f[k]
        /\ {f[k] : k \in DOMAIN out} = {i \in DOMAIN list : answers[i]}
        /\ \A k \in DOMAIN out : out[k] = list[f[k]]

\* C13: whatever loads, adds and removes came before, a call of
\* getReasonerForPredicate returns exactly the reasoners that are in the pool
\* and answer true to isCurrentPredicate, in the order of the pool, and
\* leaves the pool, the plugins and the index as they were.
C13_CurrentReasoners ==
    [][mlog'.op = "getReasonerForPredicate" =>
           /\ SelectsInOrder(mlog'.out, pool, mlog'.answers)
           /\ pool' = pool
           /\ plugins' = plugins
           /\ reasonerIndex' = reasonerIndex]_vars

\* both reasoners of a pool of two answered true and were returned
C13_Witness ==
    /\ mlog.op = "getReasonerForPredicate"
    /\ Len(pool) = 2
    /\ mlog.answers = <<TRUE, TRUE>>
    /\ mlog.out = pool
    /\ pool[1] # pool[2]

(***************************************************************************)
(* C14: the plugin cache.                                                  *)
(***************************************************************************)
\* C14: no shared object is opened more than once: a loadReasoner for a path
\* that is in the cache leaves the cache as it is, returns the plugin of the
\* cache if that plugin is loaded and no plugin (ReasonerError) if it is
\* not; a loadReasoner for a new path opens it once.
C14_OpenedOnce ==
    /\ [](\A path \in DOMAIN plugins : plugins[path].opens = 1)
    /\ [][(mlog'.op = "loadReasoner" /\ mlog'.config.lib # <<>>) =>
              LET path == mlog'.config.lib[1] IN
              /\ path \in DOMAIN plugins'
              /\ \A q \in DOMAIN plugins : q \in DOMAIN plugins' /\ plugins'[q] = plugins[q]
              /\ DOMAIN plugins' = DOMAIN plugins \cup {path}
              /\ mlog'.ret = "ok" <=> plugins'[path].isLoaded
              /\ mlog'.ret = "ok" => mlog'.reasoner.factory = PluginFactory(path)]_vars

\* a second reasoner has been made by a plugin that made an earlier one, and
\* the plugin has been opened once
C14_Witness ==
    /\ Loaded
    /\ mlog.config.lib # <<>>
    /\ \E i \in DOMAIN mlog.before : mlog.before[i].factory = mlog.reasoner.factory
    /\ plugins[mlog.config.lib[1]].opens = 1

(***************************************************************************)
(* IReasoner::addDataFileHandler and IReasoner::loadDataFile.  A data file *)
(* is [path, format]; dataFileHandler_ maps a format to a loader, and a    *)
(* loader is known by its name.  registered lists the registrations in the *)
(* order they were made.                                                   *)
(***************************************************************************)
MaxRegistrations == 3

Formats   == {"", "rdf", "owl"}
Loaders   == {"rdfLoader", "owlLoader"}
DataFiles == [path : {"file"}, format : Formats]

\* DataFile::hasUnknownFormat: the empty format means "unknown"
hasUnknownFormat(dataFile) == dataFile.format = ""

\* (mutant: a format that has a loader keeps it)
addDataFileHandler_KeepFirst(handlers, format, fn) ==
    [f \in DOMAIN handlers \cup {format} |->
        IF f \in DOMAIN handlers THEN handlers[f] ELSE fn]
\* dataFileHandler_[format] = fn
addDataFileHandler(handlers, format, fn) ==
    [f \in DOMAIN handlers \cup {format} |-> IF f = format THEN fn ELSE handlers[f]]

\* loadDataFile: what it calls and what it returns, answer being what the
\* function it calls returns
loadDataFile(handlers, dataFile, answer) ==
    IF hasUnknownFormat(dataFile)
    THEN [called |-> <<"loadDataFileWithUnknownFormat">>, ret |-> answer]
    ELSE IF dataFile.format \notin DOMAIN handlers
         THEN [called |-> <<>>, ret |-> FALSE]
         ELSE [called |-> <<handlers[dataFile.format]>>, ret |-> answer]

DataInit ==
    /\ dataFileHandler = EmptyMapping
    /\ registered = <<>>
    /\ dlog = NoCall
    /\ UnifierIdle /\ MergeIdle /\ QueryIdle /\ ParserIdle /\ MgrIdle /\ IndicatorIdle /\ ConfigIdle /\ CursorIdle

\* IReasoner::addDataFileHandler
AddDataFileHandler(format, fn) ==
    /\ Len(registered) < MaxRegistrations
    /\ dataFileHandler' = addDataFileHandler(dataFileHandler, format, fn)
    /\ registered' = Append(registered, [format |-> format, fn |-> fn])
    /\ dlog' = [op |-> "addDataFileHandler"]
    /\ UNCHANGED <<unifierVars, mergeVars, queryVars, parserVars, mgrVars, indicatorVars, configVars, cursorVars>>

\* what the function loadDataFile calls can return: there is an answer to
\* choose only when a function is called
Answers(dataFile) ==
    IF loadDataFile(dataFileHandler, dataFile, TRUE).called # <<>> THEN BOOLEAN ELSE {FALSE}

\* IReasoner::loadDataFile
LoadDataFile(dataFile, answer) ==
    LET r == loadDataFile(dataFileHandler, dataFile, answer) IN
    /\ dlog' = [op |-> "loadDataFile", dataFile |-> dataFile, answer |-> answer,
                called |-> r.called, ret |-> r.ret]
    /\ UNCHANGED <<dataFileHandler, registered>>
    /\ UNCHANGED <<unifierVars, mergeVars, queryVars, parserVars, mgrVars, indicatorVars, configVars, cursorVars>>

DataNext ==
    \/ \E format \in Formats : \E fn \in Loaders : AddDataFileHandler(format, fn)
    \/ \E dataFile \in DataFiles : \E answer \in Answers(dataFile) :
           LoadDataFile(dataFile, answer)
SpecData == DataInit /\ [][DataNext]_vars

\* the registrations made for the format, as positions of registered
RegistrationsFor(format) == {k \in DOMAIN registered : registered[k].format = format}
Latest(S) == CHOOSE k \in S : \A j \in S : j <= k

\* C15: loadDataFile passes a file of unknown format to
\* loadDataFileWithUnknownFormat and to no loader, and returns what that
\* returns; it passes a file of a known format to the loader registered last
\* for the format, and to nothing else, and returns what the loader returns;
\* when no loader was registered for the format it calls nothing and returns
\* false.
C15_DataFileDispatch ==
    dlog.op = "loadDataFile" =>
        LET format == dlog.dataFile.format
            regs   == RegistrationsFor(format)
        IN /\ format = "" =>
                  dlog.called = <<"loadDataFileWithUnknownFormat">> /\ dlog.ret = dlog.answer
           /\ (format # "" /\ regs # {}) =>
                  dlog.called = <<registered[Latest(regs)].fn>> /\ dlog.ret = dlog.answer
           /\ (format # "" /\ regs = {}) =>
                  dlog.called = <<>> /\ dlog.ret = FALSE

\* two loaders were registered for a format, one after the other, and a file
\* of the format went to the second, which loaded it
C15_Witness ==
    /\ dlog.op = "loadDataFile"
    /\ dlog.dataFile.format = "rdf"
    /\ Len(registered) >= 2
    /\ registered[1] = [format |-> "rdf", fn |-> "owlLoader"]
    /\ registered[2] = [format |-> "rdf", fn |-> "rdfLoader"]
    /\ RegistrationsFor("rdf") = {1, 2}
    /\ dlog.called = <<"rdfLoader">>
    /\ dlog.ret = TRUE

(***************************************************************************)
(* PredicateIndicator (terms.cpp).  An indicator is [functor, arity]; a    *)
(* functor is a string, here a sequence of one-character strings, and      *)
(* strings compare as std::string does: character by character, a proper   *)
(* prefix before the longer string.                                        *)
(***************************************************************************)
CharOrder == <<"a", "b">>
CharCode(c) == CHOOSE k \in DOMAIN CharOrder : CharOrder[k] = c

\* std::string operator<
RECURSIVE StringLess(_, _)
StringLess(s, t) ==
    IF t = <<>> THEN FALSE
    ELSE IF s = <<>> THEN TRUE
    ELSE IF Head(s) # Head(t) THEN CharCode(Head(s)) < CharCode(Head(t))
    ELSE StringLess(Tail(s), Tail(t))

\* PredicateIndicator::operator<
IndicatorLess(this, other) ==
    StringLess(other.functor, this.functor) \/ other.arity < this.arity

IndicatorFunctors == {<<"a">>, <<"b">>, <<"a", "b">>}
IndicatorArities  == {0, 1, 2}
PredicateIndicators == [functor : IndicatorFunctors, arity : IndicatorArities]

IndicatorInit ==
    /\ indicators \in PredicateIndicators \X PredicateIndicators \X PredicateIndicators
    /\ less = NoCall
    /\ UnifierIdle /\ MergeIdle /\ QueryIdle /\ ParserIdle /\ MgrIdle /\ DataIdle /\ ConfigIdle /\ CursorIdle

\* every two of the three indicators are compared: less[j][k] is what
\* indicators[j] < indicators[k] returns
CompareIndicators ==
    /\ less.op = "none"
    /\ less' = [op |-> "compare",
                lt |-> [j \in 1..3 |-> [k \in 1..3 |->
                           IndicatorLess(indicators[j], indicators[k])]]]
    /\ UNCHANGED indicators
    /\ UNCHANGED <<unifierVars, mergeVars, queryVars, parserVars, mgrVars, dataVars, configVars, cursorVars>>

IndicatorNext == CompareIndicators
SpecIndicator == IndicatorInit /\ [][IndicatorNext]_vars

\* C18: '<' is a strict total order on the indicators: no indicator is less
\* than itself, no two are each less than the other, a < b and b < c give
\* a < c, and of two indicators that differ in functor or arity exactly one
\* is less than the other.
C18_StrictTotalOrder ==
    less.op = "compare" =>
        /\ \A j \in 1..3 : ~less.lt[j][j]
        /\ \A j, k \in 1..3 : ~(less.lt[j][k] /\ less.lt[k][j])
        /\ \A j, k, l \in 1..3 : (less.lt[j][k] /\ less.lt[k][l]) => less.lt[j][l]
        /\ \A j, k \in 1..3 :
               indicators[j] # indicators[k] => (less.lt[j][k] \/ less.lt[k][j])

(***************************************************************************)
(* ReasonerConfiguration::loadPropertyTree.  A node of a property tree is  *)
(* [data, children], children being a sequence of <<key, node>>; a node    *)
(* without children is a leaf, and its data is its text.  A setting is     *)
(* [key, value], two terms.                                                *)
(***************************************************************************)
Setting(key, value) == [key |-> key, value |-> value]

\* the key of a setting below key1: Predicate(colon_f, {key1, key2})
ColonKey(key1, key2) == Predicate(":", <<key1, StringTerm(key2)>>)

RECURSIVE loadSettingsFrom(_, _, _)
\* the loop of loadSettings from the i-th child on
loadSettingsFrom(key1, children, i) ==
    IF i > Len(children) THEN <<>>
    ELSE LET key  == children[i][1]
             node == children[i][2]
         IN (IF key = "" THEN <<>>
             ELSE IF node.children = <<>>
                  THEN <<Setting(ColonKey(key1, key), StringTerm(node.data))>>
                  ELSE loadSettingsFrom(ColonKey(key1, key), node.children, 1))
            \o loadSettingsFrom(key1, children, i + 1)

\* ReasonerConfiguration::loadSettings
loadSettings(key1, node) == loadSettingsFrom(key1, node.children, 1)

RECURSIVE loadPropertyTreeFrom(_, _)
\* the first loop of loadPropertyTree from the i-th child on
loadPropertyTreeFrom(children, i) ==
    IF i > Len(children) THEN <<>>
    ELSE LET key  == children[i][1]
             node == children[i][2]
         IN (IF node.children = <<>>
             THEN <<Setting(StringTerm(key), StringTerm(node.data))>>
             ELSE loadSettings(StringTerm(key), node))
            \o loadPropertyTreeFrom(children, i + 1)

\* the settings loadPropertyTree appends
loadPropertyTree(config) == loadPropertyTreeFrom(config.children, 1)

\* the property trees of the model: at most two children at the top, the
\* first of which may hold two children that may hold one
ConfigKeys  == {"", "a", "b"}
ConfigTexts == {"x", "y"}
PNode(children) == [data |-> "", children |-> children]
PLeaves     == [data : ConfigTexts, children : {<<>>}]
PChains     == PLeaves \cup {PNode(<<e>>) : e \in ConfigKeys \X PLeaves}
PBranches   == PLeaves \cup {PNode(<<e>>) : e \in ConfigKeys \X PChains}
                       \cup {PNode(<<e, f>>) : e, f \in ConfigKeys \X PChains}
PropertyTrees ==
    {PNode(<<>>)} \cup {PNode(<<e>>) : e \in ConfigKeys \X PBranches}
                  \cup {PNode(<<e, f>>) : e \in ConfigKeys \X PBranches,
                                          f \in ConfigKeys \X PLeaves}

ConfigInit ==
    /\ ptree \in [tree : PropertyTrees, loaded : {FALSE}]
    /\ settings = <<>>
    /\ UnifierIdle /\ MergeIdle /\ QueryIdle /\ ParserIdle /\ MgrIdle /\ DataIdle
    /\ IndicatorIdle /\ CursorIdle

\* ReasonerConfiguration::loadPropertyTree, called once on a new configuration
LoadPropertyTree ==
    /\ ~ptree.loaded
    /\ settings' = settings \o loadPropertyTree(ptree.tree)
    /\ ptree' = [ptree EXCEPT !.loaded = TRUE]
    /\ UNCHANGED <<unifierVars, mergeVars, queryVars, parserVars, mgrVars, dataVars,
                   indicatorVars, cursorVars>>

ConfigNext == LoadPropertyTree
SpecConfig == ConfigInit /\ [][ConfigNext]_vars

RECURSIVE LeavesFrom(_, _, _)
\* the leaves below the children from the i-th on that are reached through
\* non-empty keys, in document order, each as [path, text]
LeavesFrom(children, i, path) ==
    IF i > Len(children) THEN <<>>
    ELSE LET key  == children[i][1]
             node == children[i][2]
         IN (IF key = "" THEN <<>>
             ELSE IF node.children = <<>>
                  THEN <<[path |-> Append(path, key), text |-> node.data]>>
                  ELSE LeavesFrom(node.children, 1, Append(path, key)))
            \o LeavesFrom(children, i + 1, path)

RECURSIVE NestedKey(_)
\* k1 for the path <<k1>>, and ':'(...':'(k1, k2)..., kn) for <<k1, ..., kn>>
NestedKey(path) ==
    IF Len(path) = 1 THEN StringTerm(path[1])
    ELSE Predicate(":", <<NestedKey(SubSeq(path, 1, Len(path) - 1)),
                          StringTerm(path[Len(path)])>>)

\* C21: loadPropertyTree has made exactly one setting for every leaf that is
\* reached through non-empty keys, in document order: its key is the string
\* k1 for a leaf at the top and the left-nested compound of k1, ..., kn for a
\* leaf below the keys k1, ..., kn, its value is the text of the leaf; a
\* child with an empty key gives no setting.
C21_SettingsOfLeaves ==
    ptree.loaded =>
        LET leaves == LeavesFrom(ptree.tree.children, 1, <<>>) IN
        settings = [i \in 1..Len(leaves) |->
                       Setting(NestedKey(leaves[i].path), StringTerm(leaves[i].text))]

(***************************************************************************)
(* SpecCursor: MongoCursor::ascending and MongoCursor::descending on up to *)
(* MaxCursors cursors of one process.                                      *)
(*   cursorOpts  for each cursor, the documents appended to its opts_      *)
(*   sortDocs    the function-local static `doc` of ascending and of       *)
(*               descending: <<>> before the first call, else <<doc>>      *)
(*   clog        the last call: op, cursor, key                            *)
(***************************************************************************)
MaxCursors == 2
MaxCalls == 3
SortKeys == {"k1", "k2"}

\* BCON_NEW("sort", "{", key, BCON_INT32(direction), "}")
SortDoc(key, direction) == [sort |-> [key |-> key, direction |-> direction]]

\* the static `doc` after its declaration has been passed with this key: it
\* is initialised by the first call only
StaticDoc(doc, key, direction) ==
    IF doc = <<>> THEN <<SortDoc(key, direction)>> ELSE doc

CursorInit ==
    /\ cursorOpts = [c \in 1..MaxCursors |-> <<>>]
    /\ sortDocs = [ascending |-> <<>>, descending |-> <<>>]
    /\ clog = NoCall
    /\ UnifierIdle /\ MergeIdle /\ QueryIdle /\ ParserIdle /\ MgrIdle /\ DataIdle
    /\ IndicatorIdle /\ ConfigIdle

RECURSIVE CallsUpTo(_)
\* the number of calls made so far on the cursors 1..c
CallsUpTo(c) == IF c = 0 THEN 0 ELSE Len(cursorOpts[c]) + CallsUpTo(c - 1)

\* cursor c: bson_concat(opts_, doc) with the static doc of the function op
Sort(c, op, key, direction) ==
    /\ CallsUpTo(MaxCursors) < MaxCalls
    /\ LET doc == StaticDoc(sortDocs[op], key, direction) IN
          /\ sortDocs' = [sortDocs EXCEPT ![op] = doc]
          /\ cursorOpts' = [cursorOpts EXCEPT ![c] = Append(@, doc[1])]
    /\ clog' = [op |-> op, cursor |-> c, key |-> key]
    /\ UNCHANGED <<unifierVars, mergeVars, queryVars, parserVars, mgrVars, dataVars,
                   indicatorVars, configVars>>

\* MongoCursor::ascending
Ascending(c, key) == Sort(c, "ascending", key, 1)
\* MongoCursor::descending
Descending(c, key) == Sort(c, "descending", key, -1)

CursorNext ==
    \/ \E c \in 1..MaxCursors, key \in SortKeys : Ascending(c, key)
    \/ \E c \in 1..MaxCursors, key \in SortKeys : Descending(c, key)
SpecCursor == CursorInit /\ [][CursorNext]_vars

\* C30: a call of ascending(key) or descending(key) has appended to the
\* options of its cursor the sort on the key of this call, with direction 1
\* for ascending and -1 for descending, whatever the keys of the earlier
\* calls on this or another cursor were.
C30_SortKeyOfCall ==
    clog.op # "none" =>
        LET o == cursorOpts[clog.cursor] IN
        o[Len(o)] = SortDoc(clog.key, IF clog.op = "ascending" THEN 1 ELSE -1)

====
